---------------------------- MODULE Spec2Model ----------------------------
(***************************************************************************)
(* A model of the retrieval pipeline of CortexaAI: the text chunker        *)
(* (services/rag_pipeline/chunker.py), the vector store wrapper            *)
(* (services/rag_pipeline/vectordb.py) and the retriever / ingestion       *)
(* coordinator (rag_pipeline_module/retriever.py).                         *)
(*                                                                         *)
(* Text is a sequence of characters.  A character is a one-element string: *)
(* " " and "\n" are whitespace, the members of Punct are punctuation, and  *)
(* every other string is a letter (an atom such as "Source" stands for a   *)
(* run of letters).                                                        *)
(***************************************************************************)
EXTENDS Integers, Sequences, FiniteSets, TLC

VARIABLES
    \* ---- chunker (TextChunker) ----
    text,           \* the document handed to the chunker
    chunk_size,     \* TextChunker.chunk_size
    overlap,        \* TextChunker.overlap
    tokenizer_ok,   \* whether self.tokenizer.tokenize succeeds (else the word estimate)
    call,           \* the last chunker call: [op, cs, ov] (cs, ov: the arguments, 0 = omitted)
    chunks,         \* what that call returned
    \* ---- retrieval (VectorDB.search, hybrid_search, RAGRetriever.get_context) ----
    store,          \* the collection: storage id -> [text, metadata]
    sim,            \* storage id -> cosine similarity (in tenths) of the entry to the query
    query,          \* the query text
    reply,          \* the last retrieval call and what it returned
    \* ---- ingestion (RAGRetriever) and its environment ----
    db_type,        \* VectorDB.db_type: "qdrant" or "chroma"
    collection_exists, \* whether the backend holds the collection named collection_name
    downloaded_books, \* topic -> what scraper.scrape_topic yields for it
    content,        \* text document -> its content
    pages,          \* PDF file -> the page texts extraction yields
    mtime,          \* PDF file -> os.path.getmtime
    now,            \* time.time()
    manifest_file,  \* vectordb_data/processed_docs.json: File(dict), or Partial while it is written
    processed_docs, \* retriever -> RAGRetriever.processed_docs
    pc,             \* retriever -> where its ingest_topic call stands ("idle": no call)
    pending,        \* retriever -> the locals of its ingest_topic call
    last_call,      \* the last completed call (history)
    prev_call,      \* the completed call before it, if nothing else happened in between (history)
    added,          \* the chunk ids a successful add_documents was given (history)
    reported,       \* the chunks the calls since the last clear_database reported as created (history)
    wrote,          \* retriever -> the manifest keys it has saved to the file (history)
    calls           \* the number of calls made

chunkerVars == <<text, chunk_size, overlap, tokenizer_ok, call, chunks>>
searchVars == <<sim, query, reply>>
envVars == <<db_type, collection_exists, downloaded_books, content, pages, mtime, now>>
retrieverVars == <<manifest_file, processed_docs, pc, pending>>
historyVars == <<last_call, prev_call, added, reported, wrote, calls>>
ingestVars == <<envVars, retrieverVars, historyVars>>

vars == <<chunkerVars, store, searchVars, ingestVars>>

-----------------------------------------------------------------------------
(* Bounds of the model *)

\* the largest number of segments an input document is made of
MaxSegs == 3
\* the largest number of entries of a collection that is searched
MaxEntries == 2
\* the largest similarity, in tenths
MaxScore == 2
\* the largest number of calls made to a retriever in one behaviour
MaxCalls == 2
\* the largest number of modifications of the documents
MaxTime == 1
\* the largest number of operations on a collection in one behaviour
MaxOps == 4

-----------------------------------------------------------------------------
(* Characters and strings *)

SP == " "
NL == "\n"
Space == {SP, NL}
Punct == {".", "#", "[", "]", ":", ",", "/", "-"}

Digits == {"0", "1", "2", "3", "4", "5", "6", "7", "8", "9"}
\* atoms that stand for a whole word of letters
WordAtoms == {"Chapter", "Section", "Source", "Page", "Unknown", "N", "A",
              "Found", "relevant", "chunks", "Showing", "top", "No", "information", "found"}

IsSpace(c) == c \in Space
IsPunct(c) == c \in Punct
IsDigit(c) == c \in Digits
\* alphanumeric: what the tokenizer keeps together in one word
IsLetter(c) == ~IsSpace(c) /\ ~IsPunct(c)
\* alphabetic: what [A-Z] matches under re.IGNORECASE
IsAlpha(c) == IsLetter(c) /\ ~IsDigit(c)

\* a dict with no keys
EmptyDict == [k \in {} |-> 0]

\* Python d.update(e): the keys of e win
update(d, e) == e @@ d

\* no retrieval call was made, nothing is stored
IdleSearch ==
    /\ store = EmptyDict
    /\ sim = EmptyDict
    /\ query = <<>>
    /\ reply = [op |-> "none"]

\* the retriever instances (processes) that share the manifest file and the store
Retrievers == {1, 2}
Topics == {"ml", "nlp"}
TextDocs == {"t1"}
PdfDocs == {"p1", "p2"}

\* the manifest file holding the JSON of dict d
File(d) == [complete |-> TRUE, docs |-> d]
\* the manifest file while a writer has it open: truncated or half written
Partial == [complete |-> FALSE, docs |-> EmptyDict]

\* no ingestion call completed yet (history)
NoIngest == [op |-> "none"]

\* no ingest_topic call under way
NoPending == [topic |-> "none", all_chunks |-> <<>>, books_processed |-> 0, docs |-> {},
              keys |-> {}, store_before |-> EmptyDict, manifest_before |-> EmptyDict]

\* nothing is ingested: the state of the ingestion variables in the
\* specifications of the chunker and of retrieval
IdleIngest ==
    /\ db_type = "qdrant"
    /\ collection_exists = TRUE
    /\ downloaded_books = [t \in Topics |-> <<>>]
    /\ content = [d \in TextDocs |-> <<>>]
    /\ pages = [d \in PdfDocs |-> <<>>]
    /\ mtime = [d \in PdfDocs |-> 0]
    /\ now = 1
    /\ manifest_file = File(EmptyDict)
    /\ processed_docs = [r \in Retrievers |-> EmptyDict]
    /\ pc = [r \in Retrievers |-> "idle"]
    /\ pending = [r \in Retrievers |-> NoPending]
    /\ last_call = NoIngest
    /\ prev_call = NoIngest
    /\ added = {}
    /\ reported = 0
    /\ wrote = [r \in Retrievers |-> {}]
    /\ calls = 0

\* the one element of a singleton set; { f(x) : x \in {e} } computes e once,
\* as the code computes a local once and reads it many times
The(S) == CHOOSE y \in S : TRUE

\* Python s[i:j] with 1-based inclusive bounds
Slice(s, i, j) == IF i > j THEN <<>> ELSE SubSeq(s, i, j)

\* whether sub occurs in s as a contiguous run of characters (Python: s.find(sub) >= 0)
IsSubstring(sub, s) ==
    \/ Len(sub) = 0
    \/ \E i \in 1..(Len(s) - Len(sub) + 1) : SubSeq(s, i, i + Len(sub) - 1) = sub

\* Python sep.join(parts)
RECURSIVE join(_, _)
join(parts, sep) ==
    IF Len(parts) = 0 THEN <<>>
    ELSE IF Len(parts) = 1 THEN parts[1]
    ELSE parts[1] \o sep \o join(Tail(parts), sep)

\* Python s.strip()
RECURSIVE lstrip(_)
lstrip(s) == IF Len(s) > 0 /\ IsSpace(s[1]) THEN lstrip(Tail(s)) ELSE s

RECURSIVE rstrip(_)
rstrip(s) ==
    IF Len(s) > 0 /\ IsSpace(s[Len(s)]) THEN rstrip(SubSeq(s, 1, Len(s) - 1)) ELSE s

strip(s) == lstrip(rstrip(s))

\* Python s.split(): the maximal runs of non-whitespace characters, in order
RECURSIVE splitFrom(_, _)
splitFrom(s, i) ==
    IF i > Len(s) THEN <<>>
    ELSE IF IsSpace(s[i]) THEN splitFrom(s, i + 1)
    ELSE LET ends == {j \in i..Len(s) : \A k \in i..j : ~IsSpace(s[k])}
             e == CHOOSE j \in ends : \A k \in ends : k <= j
         IN  <<SubSeq(s, i, e)>> \o splitFrom(s, e + 1)

split(s) == splitFrom(s, 1)

\* Python s.split('\n'): the lines, empty ones included
RECURSIVE splitLinesFrom(_, _)
splitLinesFrom(s, i) ==
    LET nls == {j \in i..Len(s) : s[j] = NL}
    IN  IF nls = {} THEN <<Slice(s, i, Len(s))>>
        ELSE LET n == CHOOSE j \in nls : \A k \in nls : j <= k
             IN  <<Slice(s, i, n - 1)>> \o splitLinesFrom(s, n + 1)

splitLines(s) == splitLinesFrom(s, 1)

-----------------------------------------------------------------------------
(* TextChunker: token counting and sentence splitting *)

\* the subword tokenizer: every punctuation character is a token of its own and
\* every maximal run of letters is one token
tokenize_count(s) ==
    Cardinality({i \in 1..Len(s) :
        \/ IsPunct(s[i])
        \/ IsLetter(s[i]) /\ (i = 1 \/ ~IsLetter(s[i - 1]))})

\* the fallback estimate int(len(text.split()) * 1.3)
estimate_count(s) == (Len(split(s)) * 13) \div 10

count_tokens(s) == IF tokenizer_ok THEN tokenize_count(s) ELSE estimate_count(s)

\* sent_tokenize: a sentence ends at a "." that is followed by whitespace and,
\* after it, by more text; the next sentence starts at the next non-whitespace
\* character; the last sentence ends where text.rstrip() ends.  Every sentence
\* is a slice of the text.
SentenceBreaks(s) ==
    {i \in 1..Len(s) :
        /\ s[i] = "."
        /\ i < Len(s)
        /\ IsSpace(s[i + 1])
        /\ \E j \in (i + 1)..Len(s) : ~IsSpace(s[j])}

RECURSIVE sentencesFrom(_, _)
sentencesFrom(s, i) ==
    LET brk == {b \in SentenceBreaks(s) : b >= i}
    IN  IF brk = {} THEN
            IF Len(rstrip(s)) < i THEN <<>> ELSE <<Slice(s, i, Len(rstrip(s)))>>
        ELSE LET b == CHOOSE x \in brk : \A y \in brk : x <= y
                 nxt == CHOOSE j \in (b + 1)..Len(s) :
                            /\ ~IsSpace(s[j])
                            /\ \A k \in (b + 1)..(j - 1) : IsSpace(s[k])
             IN  <<Slice(s, i, b)>> \o sentencesFrom(s, nxt)

split_into_sentences(s) == sentencesFrom(s, 1)

-----------------------------------------------------------------------------
(* TextChunker.chunk_text *)

\* An element of the running chunk: the string s, and where it comes from:
\* sentence k of the text has id 100*k, word w of the force-split sentence k
\* has id 100*k + w.  Only s is the program's data; id records provenance.
Item(s, id) == [s |-> s, id |-> id]

Strings(items) == [i \in 1..Len(items) |-> items[i].s]
Ids(items) == [i \in 1..Len(items) |-> items[i].id]

\* A returned chunk: text is the program's string, items its provenance.
Chunk(items) == [text |-> join(Strings(items), <<SP>>), items |-> Ids(items)]

\* Python xs[-n:] for n > 0
LastN(xs, n) == IF n >= Len(xs) THEN xs ELSE SubSeq(xs, Len(xs) - n + 1, Len(xs))

\* lines 82-91: the words of an oversized sentence, accumulated greedily
RECURSIVE SplitWords(_, _, _, _)
SplitWords(words, w, st, cs) ==
    IF w > Len(words) THEN st
    ELSE LET word_tokens == count_tokens(words[w].s)
         IN  IF st.temp_tokens + word_tokens <= cs
             THEN SplitWords(words, w + 1,
                     [st EXCEPT !.temp_chunk = Append(@, words[w]),
                                !.temp_tokens = @ + word_tokens], cs)
             ELSE SplitWords(words, w + 1,
                     [chunks |-> IF Len(st.temp_chunk) > 0
                                 THEN Append(st.chunks, Chunk(st.temp_chunk))
                                 ELSE st.chunks,
                      temp_chunk |-> <<words[w]>>,
                      temp_tokens |-> word_tokens], cs)

\* lines 106-114: the trailing sentences of the closed chunk whose token counts
\* add up to at most overlap, taken from the end backwards
RECURSIVE OverlapWindow(_, _, _, _)
OverlapWindow(current_chunk, i, acc, ov) ==
    IF i = 0 THEN acc
    ELSE LET sent_tokens == count_tokens(current_chunk[i].s)
         IN  IF acc.overlap_tokens + sent_tokens <= ov
             THEN OverlapWindow(current_chunk, i - 1,
                     [overlap_sentences |-> <<current_chunk[i]>> \o acc.overlap_sentences,
                      overlap_tokens |-> acc.overlap_tokens + sent_tokens], ov)
             ELSE acc

\* a variant that always carries the last sentence over, whatever its size
overlap_window_keep_last(current_chunk, ov) ==
    LET last == current_chunk[Len(current_chunk)]
        n == count_tokens(last.s)
    IN  OverlapWindow(current_chunk, Len(current_chunk) - 1,
                      [overlap_sentences |-> <<last>>, overlap_tokens |-> n], ov + n)

overlap_window(current_chunk, ov) ==
    OverlapWindow(current_chunk, Len(current_chunk),
                  [overlap_sentences |-> <<>>, overlap_tokens |-> 0], ov)

\* lines 66-122: one iteration of the loop over the sentences
chunk_sentence(st, sentence, k, cs, ov) ==
    LET sentence_tokens == count_tokens(sentence)
    IN  IF sentence_tokens > cs THEN
            \* lines 70-96: a single sentence that is too long is split at its words
            LET saved == IF Len(st.current_chunk) > 0
                         THEN Append(st.chunks, Chunk(st.current_chunk))
                         ELSE st.chunks
                cur0 == IF Len(st.current_chunk) > 0 THEN <<>> ELSE st.current_chunk
                tok0 == IF Len(st.current_chunk) > 0 THEN 0 ELSE st.current_tokens
                ws == split(sentence)
                words == [w \in 1..Len(ws) |-> Item(ws[w], 100 * k + w)]
                r == SplitWords(words, 1,
                        [chunks |-> saved, temp_chunk |-> <<>>, temp_tokens |-> 0], cs)
            IN  IF Len(r.temp_chunk) > 0
                THEN LET cur == IF ov > 0 THEN LastN(r.temp_chunk, ov) ELSE <<>>
                     IN  [chunks |-> Append(r.chunks, Chunk(r.temp_chunk)),
                          current_chunk |-> cur,
                          current_tokens |-> count_tokens(join(Strings(cur), <<SP>>))]
                ELSE [chunks |-> r.chunks, current_chunk |-> cur0, current_tokens |-> tok0]
        ELSE IF st.current_tokens + sentence_tokens > cs THEN
            \* lines 99-119: close the running chunk, open the next with the overlap
            LET closed == IF Len(st.current_chunk) > 0
                          THEN Append(st.chunks, Chunk(st.current_chunk))
                          ELSE st.chunks
            IN  IF ov > 0 /\ Len(st.current_chunk) > 0
                THEN LET win == overlap_window(st.current_chunk, ov)
                     IN  [chunks |-> closed,
                          current_chunk |-> Append(win.overlap_sentences, Item(sentence, 100 * k)),
                          current_tokens |-> win.overlap_tokens + sentence_tokens]
                ELSE [chunks |-> closed,
                      current_chunk |-> <<Item(sentence, 100 * k)>>,
                      current_tokens |-> sentence_tokens]
        ELSE
            \* lines 120-122
            [chunks |-> st.chunks,
             current_chunk |-> Append(st.current_chunk, Item(sentence, 100 * k)),
             current_tokens |-> st.current_tokens + sentence_tokens]

RECURSIVE ChunkLoop(_, _, _, _, _)
ChunkLoop(sentences, k, st, cs, ov) ==
    IF k > Len(sentences) THEN st
    ELSE ChunkLoop(sentences, k + 1, chunk_sentence(st, sentences[k], k, cs, ov), cs, ov)

\* Python `arg or default`: an omitted (None) or zero argument gives the default
OrDefault(arg, default) == IF arg = 0 THEN default ELSE arg

\* chunk_text(text, chunk_size, overlap); an argument of 0 stands for None as well
chunk_text(t, cs_arg, ov_arg) ==
    IF Len(t) = 0 THEN <<>>
    ELSE LET cs == OrDefault(cs_arg, chunk_size)
             ov == OrDefault(ov_arg, overlap)
             sentences == split_into_sentences(t)
         IN  IF Len(sentences) = 0 THEN <<>>
             ELSE LET st == ChunkLoop(sentences, 1,
                              [chunks |-> <<>>, current_chunk |-> <<>>, current_tokens |-> 0],
                              cs, ov)
                  IN  IF Len(st.current_chunk) > 0
                      THEN Append(st.chunks, Chunk(st.current_chunk))
                      ELSE st.chunks

-----------------------------------------------------------------------------
(* TextChunker.identify_sections and TextChunker.smart_chunk *)

\* the first index >= i of s whose character is not in class C (Len(s)+1 if none)
RECURSIVE RunEnd(_, _, _)
RunEnd(s, i, C) == IF i <= Len(s) /\ s[i] \in C THEN RunEnd(s, i + 1, C) ELSE i

Rest(s, i) == Slice(s, i, Len(s))

NoMatch == [is_header |-> FALSE, title |-> <<>>]
Header(title) == [is_header |-> TRUE, title |-> title]

\* X+(.+)$ from index i, X+ greedy over class C: what (.+) captures, or <<>>
\* when it cannot match (no character of C at i, or nothing left for (.+))
TailGroup(s, i, C) ==
    LET e == RunEnd(s, i, C)
    IN  IF e = i \/ i > Len(s) THEN <<>>
        ELSE IF e <= Len(s) THEN Rest(s, e)
        ELSE IF e - i >= 2 THEN <<s[Len(s)]>>   \* X+ gives back its last character
        ELSE <<>>

\* r'^#{1,6}\s+(.+)$'
MatchMarkdown(s) ==
    LET h == RunEnd(s, 1, {"#"})
        t == TailGroup(s, h, Space)
    IN  IF h >= 2 /\ h <= 7 /\ Len(t) > 0 THEN Header(t) ELSE NoMatch

\* r'^Chapter\s+\d+[:\s]+(.+)$' and r'^Section\s+\d+[:\s]+(.+)$'
MatchNamed(s, word) ==
    IF Len(s) >= 1 /\ s[1] = word
    THEN LET a == RunEnd(s, 2, Space)
             b == RunEnd(s, a, Digits)
             t == TailGroup(s, b, Space \cup {":"})
         IN  IF a > 2 /\ b > a /\ Len(t) > 0 THEN Header(t) ELSE NoMatch
    ELSE NoMatch

\* r'^\d+\.\s+(.+)$'
MatchNumbered(s) ==
    LET a == RunEnd(s, 1, Digits)
    IN  IF a > 1 /\ a <= Len(s) /\ s[a] = "."
        THEN LET t == TailGroup(s, a + 1, Space)
             IN  IF Len(t) > 0 THEN Header(t) ELSE NoMatch
        ELSE NoMatch

\* the number of characters an element of a string stands for
AtomLen(c) == IF c \in WordAtoms THEN 3 ELSE 1

RECURSIVE CharLen(_)
CharLen(s) == IF Len(s) = 0 THEN 0 ELSE AtomLen(s[1]) + CharLen(Tail(s))

\* r'^[A-Z][A-Z\s]{2,}$' under re.IGNORECASE: letters of either case and
\* whitespace only, at least three characters; no group, so the title is the line
MatchAllCaps(s) ==
    IF /\ Len(s) >= 1
       /\ IsAlpha(s[1])
       /\ \A i \in 1..Len(s) : IsAlpha(s[i]) \/ IsSpace(s[i])
       /\ CharLen(s) >= 3
    THEN Header(s) ELSE NoMatch

\* lines 193-198: the first pattern that matches line.strip()
match_header(line) ==
    LET s == strip(line)
        m1 == MatchMarkdown(s)
        m2 == MatchNamed(s, "Chapter")
        m3 == MatchNamed(s, "Section")
        m4 == MatchNumbered(s)
        m5 == MatchAllCaps(s)
    IN  IF m1.is_header THEN m1
        ELSE IF m2.is_header THEN m2
        ELSE IF m3.is_header THEN m3
        ELSE IF m4.is_header THEN m4
        ELSE m5

\* lines 202-204 and 218-220: `if current_section and current_text` appends the section
SaveSection(st) ==
    IF st.has_section /\ Len(st.current_text) > 0
    THEN Append(st.sections,
                [title |-> st.title, index |-> st.index,
                 text |-> join(st.current_text, <<NL>>)])
    ELSE st.sections

\* lines 189-215: the loop over the lines
RECURSIVE SectionLoop(_, _, _)
SectionLoop(lines, i, st) ==
    IF i > Len(lines) THEN st
    ELSE LET m == match_header(lines[i])
         IN  IF m.is_header
             THEN SectionLoop(lines, i + 1,
                     [sections |-> SaveSection(st),
                      has_section |-> TRUE,
                      title |-> m.title,
                      index |-> st.section_index,
                      current_text |-> <<>>,
                      section_index |-> st.section_index + 1])
             ELSE SectionLoop(lines, i + 1,
                     [st EXCEPT !.current_text = Append(@, lines[i])])

\* identify_sections(text): the sections (<<>> stands for None)
identify_sections(t) ==
    LET st == SectionLoop(splitLines(t), 1,
                 [sections |-> <<>>, has_section |-> FALSE, title |-> <<>>, index |-> 0,
                  current_text |-> <<>>, section_index |-> 0])
    IN  SaveSection(st)

RECURSIVE Flatten(_)
Flatten(seqs) == IF Len(seqs) = 0 THEN <<>> ELSE seqs[1] \o Flatten(Tail(seqs))

\* lines 143-155: the chunks of one section
section_chunks(section, metadata) ==
    LET cs == chunk_text(section.text, 0, 0)
    IN  [i \in 1..Len(cs) |->
            update([text |-> cs[i].text,
                    section |-> section.title,
                    section_index |-> section.index,
                    chunk_index |-> i - 1,
                    tokens |-> count_tokens(cs[i].text)], metadata)]

\* lines 158-167: the chunks of a document without sections
regular_chunks(t, metadata) ==
    LET cs == chunk_text(t, 0, 0)
    IN  [i \in 1..Len(cs) |->
            update([text |-> cs[i].text,
                    chunk_index |-> i - 1,
                    tokens |-> count_tokens(cs[i].text)], metadata)]

\* smart_chunk(text, metadata)
smart_chunk(t, metadata) ==
    IF Len(t) = 0 THEN <<>>
    ELSE LET sections == identify_sections(t)
         IN  IF Len(sections) > 0
             THEN Flatten([k \in 1..Len(sections) |-> section_chunks(sections[k], metadata)])
             ELSE regular_chunks(t, metadata)

-----------------------------------------------------------------------------
(* TextChunker.prepare_chunks_for_indexing *)

Digit(n) == CHOOSE d \in Digits :
                d = <<"0", "1", "2", "3", "4", "5", "6", "7", "8", "9">>[n + 1]

\* str(n) for n >= 0
RECURSIVE NumStr(_)
NumStr(n) == IF n < 10 THEN <<Digit(n)>> ELSE NumStr(n \div 10) \o <<Digit(n % 10)>>

Get(d, key, default) == IF key \in DOMAIN d THEN d[key] ELSE default

\* f"{doc_id}_{i}"
ChunkId(doc_id, i) == doc_id \o <<"_">> \o NumStr(i)

\* lines 248-251: a chunk without a text field is left out
HasText(chunk_data) == "text" \in DOMAIN chunk_data

\* a preparation in which the document's fields replace the chunk's
prepare_chunks_overwriting(cs, metadata) ==
    [i \in 1..Len(cs) |->
        update(update(cs[i], metadata),
               [id |-> ChunkId(Get(metadata, "doc_id", <<"doc">>), i - 1), index |-> i - 1])]

\* chunker.prepare_chunks_for_indexing(chunks, metadata); an empty metadata
\* is falsy as None is: the id is then "chunk_{i}" (line 239)
prepare_chunks_for_indexing(cs, metadata) ==
    SelectSeq(
        [i \in 1..Len(cs) |->
            update(metadata,
                   update(cs[i],
                          [id |-> IF metadata = EmptyDict THEN ChunkId(<<"chunk">>, i - 1)
                                  ELSE ChunkId(Get(metadata, "doc_id", <<"doc">>), i - 1),
                           index |-> i - 1]))],
        HasText)

-----------------------------------------------------------------------------
(* The chunker driven on bounded inputs *)

\* the pieces input documents are made of: sentences of one to three words
\* and a markdown heading
Segs == { <<"a", ".">>,
          <<"a", SP, "a", ".">>,
          <<"a", SP, "a", SP, "a", ".">>,
          <<"#", SP, "a">> }

RECURSIVE TextsOf(_)
TextsOf(n) ==
    IF n = 1 THEN Segs
    ELSE {t \o <<sep>> \o s : t \in TextsOf(n - 1), sep \in Space, s \in Segs}

\* the sample document of chunker.py (lines 355-376) in small: a chapter
\* and two numbered sections, each heading followed by a body of its own
TitledSample ==
    <<"Chapter", SP, "1", ":", SP, "x", NL, "a", SP, "a", ".", NL,
      "Section", SP, "1", ".", "1", ":", SP, "y", NL, "b", ".", NL,
      "Section", SP, "1", ".", "2", ":", SP, "z", NL, "c", ".">>

\* the same document with headings that carry no title
BareSample ==
    <<"Chapter", SP, "1", NL, "a", SP, "a", ".", NL,
      "Section", SP, "1", ".", "1", NL, "b", ".", NL,
      "Section", SP, "1", ".", "2", NL, "c", ".">>

SampleTexts == {TitledSample, BareSample}

Texts == UNION {TextsOf(n) : n \in 1..MaxSegs} \cup SampleTexts

ChunkSizes == {3, 4}
Overlaps == {0, 1, 2}
\* the arguments of a direct chunk_text call; 0 is an omitted argument
ArgSizes == {0, 2}
ArgOverlaps == {0, 2}
Metas == {EmptyDict, [source |-> "doc"]}

NoCall == [op |-> "none", cs |-> 0, ov |-> 0]

\* no chunker call was made
IdleChunker ==
    /\ text = <<>>
    /\ call = NoCall
    /\ chunks = <<>>

InitChunker ==
    /\ IdleSearch
    /\ IdleIngest
    /\ text \in Texts
    /\ chunk_size \in ChunkSizes
    /\ overlap \in Overlaps
    /\ tokenizer_ok \in BOOLEAN
    /\ call = NoCall
    /\ chunks = <<>>

\* chunker.chunk_text(text, cs, ov)
ChunkTextCall ==
    \E cs \in ArgSizes, ov \in ArgOverlaps :
        /\ call.op = "none"
        /\ call' = [op |-> "chunk_text", cs |-> cs, ov |-> ov]
        /\ chunks' = chunk_text(text, cs, ov)
        /\ UNCHANGED <<text, chunk_size, overlap, tokenizer_ok, store, searchVars, ingestVars>>

\* chunker.smart_chunk(text, metadata)
SmartChunkCall ==
    \E metadata \in Metas :
        /\ call.op = "none"
        /\ call' = [op |-> "smart_chunk", cs |-> 0, ov |-> 0]
        /\ chunks' = smart_chunk(text, metadata)
        /\ UNCHANGED <<text, chunk_size, overlap, tokenizer_ok, store, searchVars, ingestVars>>

\* the document metadata handed to prepare_chunks_for_indexing
DocMetas == { EmptyDict,
              [source |-> "other"],
              [doc_id |-> <<"d">>, source |-> "other", section |-> <<"m">>] }

\* chunker.prepare_chunks_for_indexing(chunks, metadata) on the chunks the
\* call before returned; a chunk of chunk_text is a str and becomes
\* {'text': chunk} (lines 233-234)
PrepareChunksCall ==
    \E metadata \in DocMetas :
        /\ call.op \in {"chunk_text", "smart_chunk"}
        /\ \E given \in {IF call.op = "chunk_text"
                          THEN [i \in 1..Len(chunks) |-> [text |-> chunks[i].text]]
                          ELSE chunks} :
              /\ call' = [op |-> "prepare_chunks_for_indexing", cs |-> 0, ov |-> 0,
                          given |-> given, metadata |-> metadata]
              /\ chunks' = prepare_chunks_for_indexing(given, metadata)
        /\ UNCHANGED <<text, chunk_size, overlap, tokenizer_ok, store, searchVars, ingestVars>>

NextChunker == ChunkTextCall \/ SmartChunkCall \/ PrepareChunksCall

SpecChunker == InitChunker /\ [][NextChunker]_vars

-----------------------------------------------------------------------------
(* Properties of chunk_text and smart_chunk (specification SpecChunker) *)

\* the chunk size and overlap in force in the recorded chunk_text call
EffSize == OrDefault(call.cs, chunk_size)
EffOverlap == OrDefault(call.ov, overlap)

\* a chunk made of whole sentences only: no word of a force-split sentence
SentenceOnly(c) == \A i \in 1..Len(c.items) : c.items[i] % 100 = 0

\* the number of trailing items of chunk a that are the leading items of chunk b
SharedLen(a, b) ==
    LET ks == {k \in 0..Len(a.items) :
                  /\ k <= Len(b.items)
                  /\ \A j \in 1..k : a.items[Len(a.items) - k + j] = b.items[j]}
    IN  CHOOSE k \in ks : \A m \in ks : m <= k

RECURSIVE SumTokens(_, _, _)
SumTokens(sentences, ids, k) ==
    IF k = 0 THEN 0
    ELSE count_tokens(sentences[ids[k] \div 100]) + SumTokens(sentences, ids, k - 1)

\* the tokens of the sentences that end chunk a and start chunk b, each sentence
\* counted by count_tokens
SharedTokens(a, b) ==
    SumTokens(split_into_sentences(text), b.items, SharedLen(a, b))

SentencePairs ==
    {i \in 1..(Len(chunks) - 1) : SentenceOnly(chunks[i]) /\ SentenceOnly(chunks[i + 1])}

\* C1: with the tokenizer at work, every chunk chunk_text returns that is made
\* of whole sentences (no forced word-level split) has at most chunk_size tokens.
C1_ChunkWithinChunkSize ==
    (call.op = "chunk_text" /\ tokenizer_ok) =>
        \A i \in 1..Len(chunks) :
            SentenceOnly(chunks[i]) => count_tokens(chunks[i].text) <= EffSize

\* C2 as stated: two consecutive chunks of whole sentences share more than 0 and
\* at most `overlap` tokens (the overlap being large enough for a sentence).
C2_OverlapPositiveAndBounded ==
    (call.op = "chunk_text" /\ tokenizer_ok /\ EffOverlap >= 2) =>
        \A i \in SentencePairs :
            /\ SharedTokens(chunks[i], chunks[i + 1]) > 0
            /\ SharedTokens(chunks[i], chunks[i + 1]) <= EffOverlap

\* C2 as amended: two consecutive chunks of whole sentences share sentences
\* whose token counts add up to at most the overlap in force (the argument, or
\* the chunker's own overlap when the argument is omitted or 0); they may share
\* nothing.
C2_OverlapBounded ==
    call.op = "chunk_text" =>
        \A i \in SentencePairs :
            SharedTokens(chunks[i], chunks[i + 1]) <= EffOverlap

\* two consecutive chunks of whole sentences that share a full overlap window
C2_Witness ==
    /\ call.op = "chunk_text"
    /\ \E i \in SentencePairs :
        /\ SharedTokens(chunks[i], chunks[i + 1]) > 0
        /\ SharedTokens(chunks[i], chunks[i + 1]) = EffOverlap

\* C3: every chunk text smart_chunk returns is a contiguous substring of the
\* document, character for character.
C3_ChunkIsSubstring ==
    call.op = "smart_chunk" =>
        \A i \in 1..Len(chunks) : IsSubstring(chunks[i].text, text)

\* the lines of the document that are headings (lines 193-198)
HeadingLines ==
    {i \in 1..Len(splitLines(text)) : match_header(splitLines(text)[i]).is_header}

\* the text of the section heading line h opens: the lines after it, up to
\* the next heading
Body(h) ==
    LET lines == splitLines(text)
        later == {g \in HeadingLines : g > h}
        stop == IF later = {} THEN Len(lines) + 1
                ELSE CHOOSE g \in later : \A k \in later : g <= k
    IN  join(Slice(lines, h + 1, stop - 1), <<NL>>)

\* C20: when the document has at least one heading, every chunk smart_chunk
\* returns carries the title and the ordinal index of one section and its
\* words are consecutive words of that section's text, so no chunk holds
\* text of two sections
C20_ChunksTaggedWithTheirSection ==
    (call.op = "smart_chunk" /\ HeadingLines # {}) =>
        \A i \in 1..Len(chunks) :
            /\ "section" \in DOMAIN chunks[i]
            /\ "section_index" \in DOMAIN chunks[i]
            /\ \E h \in HeadingLines :
                /\ chunks[i].section = match_header(splitLines(text)[h]).title
                /\ chunks[i].section_index = Cardinality({g \in HeadingLines : g < h})
                /\ IsSubstring(split(chunks[i].text), split(Body(h)))

\* the lines of the document headed "Chapter <number>" or "Section <number>"
NamedHeadingLines ==
    {i \in 1..Len(splitLines(text)) :
        LET s == strip(splitLines(text)[i])
        IN  Len(s) >= 3 /\ s[1] \in {"Chapter", "Section"} /\ IsSpace(s[2])
                /\ IsDigit(s[3])}

\* the lines between heading line h and the next line of NamedHeadingLines
NamedBody(h) ==
    LET lines == splitLines(text)
        later == {g \in NamedHeadingLines : g > h}
        stop == IF later = {} THEN Len(lines) + 1
                ELSE CHOOSE g \in later : \A k \in later : g <= k
    IN  join(Slice(lines, h + 1, stop - 1), <<NL>>)

\* the section tags of the returned chunks
SectionTags ==
    {chunks[i].section : i \in {j \in 1..Len(chunks) : "section" \in DOMAIN chunks[j]}}

\* C21: for the document with the headings "Chapter 1", "Section 1.1" and
\* "Section 1.2", each followed by body text, the chunks smart_chunk returns
\* carry at least three distinct section tags and the words of every chunk
\* are consecutive words of the body under one of the three headings
C21_ThreeHeadingsThreeTags ==
    (call.op = "smart_chunk" /\ text \in SampleTexts) =>
        /\ Cardinality(NamedHeadingLines) = 3
        /\ Cardinality(SectionTags) >= 3
        /\ \A i \in 1..Len(chunks) :
               \E h \in NamedHeadingLines :
                   IsSubstring(split(chunks[i].text), split(NamedBody(h)))

\* C25: prepare_chunks_for_indexing gives the chunk at position i of a
\* document with a doc_id the id "{doc_id}_{i}", so that no two chunks of
\* the call share an id; every field of a given chunk keeps its value (id
\* and index are the fields the call itself assigns), and a field of the
\* document metadata is on the chunk with the document's value when the
\* given chunk did not have it
C25_IdsByPositionFieldsKept ==
    call.op = "prepare_chunks_for_indexing" =>
        /\ Len(chunks) = Len(call.given)
        /\ "doc_id" \in DOMAIN call.metadata =>
               /\ \A i \in 1..Len(chunks) :
                      chunks[i].id = call.metadata.doc_id \o <<"_">> \o NumStr(i - 1)
               /\ \A i, j \in 1..Len(chunks) : chunks[i].id = chunks[j].id => i = j
        /\ \A i \in 1..Len(chunks) :
               /\ \A k \in DOMAIN call.given[i] \ {"id", "index"} :
                      k \in DOMAIN chunks[i] /\ chunks[i][k] = call.given[i][k]
               /\ \A k \in DOMAIN call.metadata \ (DOMAIN call.given[i] \cup {"id", "index"}) :
                      k \in DOMAIN chunks[i] /\ chunks[i][k] = call.metadata[k]

\* two chunks of a document prepared with metadata whose source and section
\* differ from the ones the chunks carry: the chunks keep theirs and get
\* the doc_id
C25_Witness ==
    /\ call.op = "prepare_chunks_for_indexing"
    /\ Len(chunks) >= 2
    /\ call.metadata = [doc_id |-> <<"d">>, source |-> "other", section |-> <<"m">>]
    /\ \A i \in 1..Len(chunks) :
          /\ "source" \in DOMAIN call.given[i]
          /\ "section" \in DOMAIN call.given[i]
          /\ chunks[i].source = "doc"
          /\ chunks[i].section # <<"m">>
          /\ chunks[i].doc_id = <<"d">>
    /\ chunks[2].id = <<"d", "_", "1">>

\* whether the elements of w occur in s in that order (not necessarily
\* next to each other)
RECURSIVE Embeds(_, _)
Embeds(w, s) ==
    IF Len(w) = 0 THEN TRUE
    ELSE IF Len(s) = 0 THEN FALSE
    ELSE IF w[1] = s[1] THEN Embeds(Tail(w), Tail(s))
    ELSE Embeds(w, Tail(s))

\* the words of the lines of the document that are not heading lines, in order
BodyWords ==
    LET lines == splitLines(text)
    IN  Flatten([i \in 1..Len(lines) |->
                    IF i \in HeadingLines THEN <<>> ELSE split(lines[i])])

\* the words of the returned chunks, chunk after chunk
ChunkWords == Flatten([i \in 1..Len(chunks) |-> split(chunks[i].text)])

\* the sentences and words the chunks of chunk_text are made of, chunk after chunk
ChunkItems == Flatten([i \in 1..Len(chunks) |-> chunks[i].items])

\* C27: smart_chunk returns every word of every line that is not a detected
\* heading line, in source order, the lines before the first heading
\* included; chunk_text places every sentence, or every word of a sentence
\* it split, in at least one chunk, and the chunks follow the source order
C27_NoBodyTextLost ==
    /\ call.op = "smart_chunk" => Embeds(BodyWords, ChunkWords)
    /\ call.op = "chunk_text" =>
           LET sentences == split_into_sentences(text)
               placed == {ChunkItems[i] : i \in 1..Len(ChunkItems)}
           IN  /\ \A k \in 1..Len(sentences) :
                      \/ 100 * k \in placed
                      \/ \A w \in 1..Len(split(sentences[k])) : 100 * k + w \in placed
               /\ \A i \in 1..Len(chunks) :
                      \A a, b \in 1..Len(chunks[i].items) :
                          a < b => chunks[i].items[a] < chunks[i].items[b]
               /\ \A i \in 1..(Len(chunks) - 1) :
                      chunks[i].items[Len(chunks[i].items)]
                          <= chunks[i + 1].items[Len(chunks[i + 1].items)]

\* C28: every chunk chunk_text returns after the first holds a sentence or
\* a word that the chunk before it does not hold
C28_EveryChunkAddsText ==
    call.op = "chunk_text" =>
        \A i \in 2..Len(chunks) :
            \E a \in 1..Len(chunks[i].items) :
                \A b \in 1..Len(chunks[i - 1].items) :
                    chunks[i].items[a] # chunks[i - 1].items[b]

-----------------------------------------------------------------------------
(* VectorDB.search and VectorDB.hybrid_search *)

Min(a, b) == IF a <= b THEN a ELSE b

\* str.lower() on the letters of the model
Lower(c) == IF c = "A" THEN "a" ELSE IF c = "B" THEN "b" ELSE c
lower(s) == [i \in 1..Len(s) |-> Lower(s[i])]

\* set(s.lower().split())
word_set(s) == LET ws == split(lower(s)) IN {ws[i] : i \in 1..Len(ws)}

\* the store's ranking of a set of entries: by similarity, highest first
RECURSIVE Ranked(_)
Ranked(keys) ==
    IF keys = {} THEN <<>>
    ELSE LET best == CHOOSE k \in keys :
                        \A j \in keys : sim[k] > sim[j] \/ (sim[k] = sim[j] /\ k <= j)
         IN  <<best>> \o Ranked(keys \ {best})

\* lines 264-272 / 297: every filter key must be in the payload with that value
MatchesFilters(entry, filters) ==
    \A key \in DOMAIN filters :
        key \in DOMAIN entry.metadata /\ entry.metadata[key] = filters[key]

\* VectorDB.search(query, top_k, filters): the top_k nearest entries that match
search(q, top_k, filters) ==
    LET ranked == Ranked({k \in DOMAIN store : MatchesFilters(store[k], filters)})
    IN  [i \in 1..Min(top_k, Len(ranked)) |->
            [text |-> store[ranked[i]].text,
             score |-> sim[ranked[i]],
             metadata |-> store[ranked[i]].metadata]]

\* a word list taken as it is, every repeated word counted again
keep_repeats(words) == words

\* set(words) of line 328: the words without the repeats, in the order of
\* their first occurrence (the order plays no part in the scores)
distinct(words) ==
    LET firsts == {i \in 1..Len(words) : \A j \in 1..(i - 1) : words[j] # words[i]}
    IN  [k \in 1..Cardinality(firsts) |->
            words[CHOOSE i \in firsts : Cardinality({j \in firsts : j <= i}) = k]]

\* lines 332-339: the combined score of one result, as a fraction num/den with
\* den = 100 * len(query_words); weight and score are in tenths
combined_score(result, query_words, weight) ==
    LET text_words == word_set(result.text)
        n == Len(query_words)
        common == {query_words[i] : i \in 1..n} \cap text_words
    IN  [num |-> (10 - weight) * result.score * n + weight * 10 * Cardinality(common),
         den |-> 100 * n]

\* x ranks before y in a descending sort (same denominators)
Higher(x, y) == x.combined_score.num > y.combined_score.num

\* list.sort(key=combined_score, reverse=True): stable, highest first
RECURSIVE InsertSorted(_, _)
InsertSorted(sorted, x) ==
    IF Len(sorted) = 0 THEN <<x>>
    ELSE IF Higher(x, sorted[1]) THEN <<x>> \o sorted
    ELSE <<sorted[1]>> \o InsertSorted(Tail(sorted), x)

RECURSIVE SortDescending(_)
SortDescending(xs) ==
    IF Len(xs) = 0 THEN <<>>
    ELSE InsertSorted(SortDescending(SubSeq(xs, 1, Len(xs) - 1)), xs[Len(xs)])

Raised(kind) == [raised |-> TRUE, error |-> kind, results |-> <<>>]
Returned(results) == [raised |-> FALSE, error |-> "", results |-> results]

\* VectorDB.hybrid_search(query, top_k, keyword_weight)
hybrid_search(q, top_k, weight) ==
    LET semantic_results == search(q, top_k * 2, EmptyDict)
        query_words == distinct(split(lower(q)))
    IN  IF Len(semantic_results) > 0 /\ Len(query_words) = 0
        THEN Raised("ZeroDivisionError")     \* line 333: / len(query_words)
        ELSE LET scored == [i \in 1..Len(semantic_results) |->
                               [text |-> semantic_results[i].text,
                                score |-> semantic_results[i].score,
                                metadata |-> semantic_results[i].metadata,
                                combined_score |->
                                    combined_score(semantic_results[i], query_words, weight)]]
                 sorted == SortDescending(scored)
             IN  Returned(SubSeq(sorted, 1, Min(top_k, Len(sorted))))

\* keyword_weight: float = 0.3, in tenths
DefaultKeywordWeight == 3

\* RAGRetriever.search(query, top_k, filters, use_hybrid)
retriever_search(q, top_k, filters, use_hybrid) ==
    IF use_hybrid THEN hybrid_search(q, top_k, DefaultKeywordWeight)
    ELSE Returned(search(q, top_k, filters))

-----------------------------------------------------------------------------
(* RAGRetriever.get_context *)

\* "No relevant information found."
Sentinel == <<"No", SP, "relevant", SP, "information", SP, "found", ".">>

\* f"[Source: {source}, Page: {page}]\n{chunk_text}\n"
context_part(result) ==
    LET source == Get(result.metadata, "source", <<"Unknown">>)
        page == IF "page" \in DOMAIN result.metadata
                THEN NumStr(result.metadata["page"]) ELSE <<"N", "/", "A">>
    IN  <<"[", "Source", ":", SP>> \o source \o <<",", SP, "Page", ":", SP>> \o page
            \o <<"]", NL>> \o result.text \o <<NL>>

\* lines 268-282: results are taken in order until one does not fit
RECURSIVE ContextLoop(_, _, _, _)
ContextLoop(results, i, st, max_tokens) ==
    IF i > Len(results) THEN st
    ELSE LET chunk_tokens == count_tokens(results[i].text)
         IN  IF st.current_tokens + chunk_tokens > max_tokens THEN st
             ELSE ContextLoop(results, i + 1,
                     [context_parts |-> Append(st.context_parts, context_part(results[i])),
                      current_tokens |-> st.current_tokens + chunk_tokens], max_tokens)

\* a loop that passes over a result that does not fit and goes on with the next
RECURSIVE ContextLoopPassing(_, _, _, _)
ContextLoopPassing(results, i, st, max_tokens) ==
    IF i > Len(results) THEN st
    ELSE LET chunk_tokens == count_tokens(results[i].text)
         IN  IF st.current_tokens + chunk_tokens > max_tokens
             THEN ContextLoopPassing(results, i + 1, st, max_tokens)
             ELSE ContextLoopPassing(results, i + 1,
                     [context_parts |-> Append(st.context_parts, context_part(results[i])),
                      current_tokens |-> st.current_tokens + chunk_tokens], max_tokens)

\* a context built from every result that fits, wherever it ranks
context_loop_passing(results, max_tokens) ==
    ContextLoopPassing(results, 1, [context_parts |-> <<>>, current_tokens |-> 0], max_tokens)

\* lines 264-282: context_parts = [], current_tokens = 0, then the loop
context_loop(results, max_tokens) ==
    ContextLoop(results, 1, [context_parts |-> <<>>, current_tokens |-> 0], max_tokens)

\* f"Found {len(results)} relevant chunks. Showing top {len(context_parts)} chunks:\n\n"
header(found, shown) ==
    <<"Found", SP>> \o NumStr(found) \o <<SP, "relevant", SP, "chunks", ".", SP,
      "Showing", SP, "top", SP>> \o NumStr(shown) \o <<SP, "chunks", ":", NL, NL>>

\* RAGRetriever.get_context(query, max_tokens, top_k): [raised, error, results],
\* results being the returned string
get_context(q, max_tokens, top_k) ==
    LET found == retriever_search(q, top_k, EmptyDict, TRUE)
    IN  IF found.raised THEN found
        ELSE IF Len(found.results) = 0 THEN Returned(Sentinel)
        ELSE LET st == context_loop(found.results, max_tokens)
                 context == join(st.context_parts, <<NL, "-", "-", "-", NL>>)
             IN  Returned(header(Len(found.results), Len(st.context_parts)) \o context)

-----------------------------------------------------------------------------
(* Retrieval driven on bounded collections *)

\* "passage" stands for one word of 500 characters
EntryTexts == { <<"a", SP, "a", SP, "b", ".">>, <<"b">>, <<>>, <<"passage">> }
EntryMetas == { EmptyDict, [source |-> <<"doc">>, page |-> 1] }
Entries == [text : EntryTexts, metadata : EntryMetas]
Queries == { <<>>, <<SP>>, <<"a">>, <<"a", SP, "b">>, <<"a", SP, "a", SP, "b">>, <<"A", SP, "b">> }
TopKs == {1, 2}
\* keyword weights, in tenths
Weights == {0, 3, 10}
Budgets == {0, 3, 4, 5}
Filters == { EmptyDict, [source |-> <<"doc">>] }

InitSearch ==
    /\ IdleChunker
    /\ IdleIngest
    /\ chunk_size = 3
    /\ overlap = 1
    /\ tokenizer_ok \in BOOLEAN
    /\ \E n \in 0..MaxEntries :
        /\ store \in [1..n -> Entries]
        /\ sim \in [1..n -> 0..MaxScore]
    /\ query \in Queries
    /\ reply = [op |-> "none"]

\* vectordb.search(query, top_k, filters)
SearchCall ==
    \E top_k \in TopKs, filters \in Filters :
        /\ reply.op = "none"
        /\ reply' = [op |-> "search", top_k |-> top_k, filters |-> filters,
                     out |-> Returned(search(query, top_k, filters))]
        /\ UNCHANGED <<store, sim, query, chunkerVars, ingestVars>>

\* vectordb.hybrid_search(query, top_k, keyword_weight)
HybridSearchCall ==
    \E top_k \in TopKs, weight \in Weights :
        /\ reply.op = "none"
        /\ reply' = [op |-> "hybrid_search", top_k |-> top_k, weight |-> weight,
                     out |-> hybrid_search(query, top_k, weight)]
        /\ UNCHANGED <<store, sim, query, chunkerVars, ingestVars>>

\* retriever.get_context(query, max_tokens, top_k)
GetContextCall ==
    \E max_tokens \in Budgets, top_k \in TopKs :
        /\ reply.op = "none"
        /\ reply' = [op |-> "get_context", top_k |-> top_k, max_tokens |-> max_tokens,
                     out |-> get_context(query, max_tokens, top_k)]
        /\ UNCHANGED <<store, sim, query, chunkerVars, ingestVars>>

\* len(c) for an element of a string
Chars(c) ==
    CASE c \in {"Chapter", "Section", "Unknown", "Showing"} -> 7
      [] c \in {"Source", "chunks"} -> 6
      [] c \in {"Found", "found"} -> 5
      [] c = "Page" -> 4
      [] c \in {"top", "doc"} -> 3
      [] c = "No" -> 2
      [] c = "relevant" -> 8
      [] c = "information" -> 11
      [] c = "passage" -> 500
      [] OTHER -> 1

\* len(s)
RECURSIVE StrLen(_)
StrLen(s) == IF Len(s) = 0 THEN 0 ELSE Chars(s[1]) + StrLen(Tail(s))

\* main.py line 113: get_context(self.topic, max_tokens=4000)
ContextBudget == 4000
\* top_k: int = 50 of get_context
DefaultTopK == 50
\* main.py line 114: len(self.rag_content) < 500
MinContextChars == 500

\* a check that takes any non-empty string as context
sufficient_nonempty(rag_content) == Len(rag_content) # 0

\* main.py line 114: not (not rag_content or len(rag_content) < 500)
sufficient(rag_content) ==
    ~(Len(rag_content) = 0 \/ StrLen(rag_content) < MinContextChars)

\* LearningSessionOrchestrator._prepare_content_source from line 113 on, the
\* topic being the query: the context is retrieved and, when sufficient,
\* kept as rag_content for the content generators (passed); otherwise the
\* RuntimeError of line 115 ends the session.  get_statistics counts the
\* manifest's chunks, so the store searched here can be empty.
PrepareContentSource ==
    /\ reply.op = "none"
    /\ \E out \in {get_context(query, ContextBudget, DefaultTopK)} :
        reply' = [op |-> "prepare_content_source", top_k |-> DefaultTopK,
                  max_tokens |-> ContextBudget, out |-> out,
                  passed |-> ~out.raised /\ sufficient(out.results)]
    /\ UNCHANGED <<store, sim, query, chunkerVars, ingestVars>>

\* the backends of a query: the embedding model and the vector store, each
\* working or failing (raising) when it is called
Backends == [embed_ok : BOOLEAN, store_ok : BOOLEAN]

\* how often a call invoked the embedder and the store
Invoked(embed_calls, store_calls, out) ==
    [embed_calls |-> embed_calls, store_calls |-> store_calls] @@ out

\* a search that answers a failed backend with an empty result list
search_on_swallowing(q, top_k, filters, backend) ==
    IF ~backend.embed_ok THEN Invoked(1, 0, Returned(<<>>))
    ELSE IF ~backend.store_ok THEN Invoked(1, 1, Returned(<<>>))
    ELSE Invoked(1, 1, Returned(search(q, top_k, filters)))

\* VectorDB.search (lines 247-258) on the given backends: encode the query
\* (line 253), then query the store (lines 255-258); nothing is caught
search_on(q, top_k, filters, backend) ==
    IF ~backend.embed_ok THEN Invoked(1, 0, Raised("EmbeddingError"))
    ELSE IF ~backend.store_ok THEN Invoked(1, 1, Raised("StoreError"))
    ELSE Invoked(1, 1, Returned(search(q, top_k, filters)))

\* VectorDB.hybrid_search on the given backends: the one search of line 325
\* is not guarded, the re-ranking calls no backend
hybrid_search_on(q, top_k, weight, backend) ==
    LET semantic == search_on(q, top_k * 2, EmptyDict, backend)
    IN  IF semantic.raised THEN semantic
        ELSE Invoked(semantic.embed_calls, semantic.store_calls,
                     hybrid_search(q, top_k, weight))

\* RAGRetriever.search on the given backends (lines 243-246)
retriever_search_on(q, top_k, filters, use_hybrid, backend) ==
    IF use_hybrid THEN hybrid_search_on(q, top_k, DefaultKeywordWeight, backend)
    ELSE search_on(q, top_k, filters, backend)

\* RAGRetriever.get_context on the given backends: the one search of line
\* 258 is not guarded, building the context calls no backend
get_context_on(q, max_tokens, top_k, backend) ==
    LET found == retriever_search_on(q, top_k, EmptyDict, TRUE, backend)
    IN  IF found.raised THEN found
        ELSE Invoked(found.embed_calls, found.store_calls,
                     get_context(q, max_tokens, top_k))

\* the query entry points
QueryOps == {"search", "hybrid_search", "retriever_search", "get_context"}

\* one of the query entry points called while the embedding model or the
\* vector store fails
QueryOnFailingBackend ==
    \E backend \in Backends, entry \in QueryOps, top_k \in TopKs :
        /\ reply.op = "none"
        /\ ~(backend.embed_ok /\ backend.store_ok)
        /\ reply' =
              [op |-> "query_on_failing_backend", entry |-> entry, top_k |-> top_k,
               backend |-> backend,
               out |-> CASE entry = "search" -> search_on(query, top_k, EmptyDict, backend)
                         [] entry = "hybrid_search" ->
                                hybrid_search_on(query, top_k, DefaultKeywordWeight, backend)
                         [] entry = "retriever_search" ->
                                retriever_search_on(query, top_k, EmptyDict, TRUE, backend)
                         [] entry = "get_context" ->
                                get_context_on(query, ContextBudget, top_k, backend)]
        /\ UNCHANGED <<store, sim, query, chunkerVars, ingestVars>>

\* retriever.search(query, top_k, filters, use_hybrid)
RetrieverSearchCall ==
    \E top_k \in TopKs, filters \in Filters, use_hybrid \in BOOLEAN :
        /\ reply.op = "none"
        /\ reply' = [op |-> "retriever_search", top_k |-> top_k, filters |-> filters,
                     use_hybrid |-> use_hybrid,
                     out |-> retriever_search(query, top_k, filters, use_hybrid)]
        /\ UNCHANGED <<store, sim, query, chunkerVars, ingestVars>>

NextSearch ==
    \/ SearchCall
    \/ HybridSearchCall
    \/ GetContextCall
    \/ RetrieverSearchCall
    \/ PrepareContentSource
    \/ QueryOnFailingBackend

SpecSearch == InitSearch /\ [][NextSearch]_vars

-----------------------------------------------------------------------------
(* Properties of search, hybrid_search and get_context (specification SpecSearch) *)

\* the returned context without its header line and the blank line after it
RemoveHeader(out) ==
    LET nls == {i \in 1..Len(out) : out[i] = NL}
        first == CHOOSE i \in nls : \A j \in nls : i <= j
    IN  Rest(out, first + 2)

\* a result as search returns it: without the combined score hybrid_search adds
Plain(results) ==
    [i \in 1..Len(results) |->
        [text |-> results[i].text, score |-> results[i].score,
         metadata |-> results[i].metadata]]

\* C4: the string get_context returns, without its header line, has at most
\* max_tokens tokens, counted by count_tokens over all of it.
C4_ContextWithinBudget ==
    (/\ reply.op = "get_context"
     /\ tokenizer_ok
     /\ ~reply.out.raised
     /\ reply.out.results # Sentinel) =>
        count_tokens(RemoveHeader(reply.out.results)) <= reply.max_tokens

\* C5: hybrid_search with keyword weight 0 returns the entries search returns,
\* in the same order.
C5_HybridWeightZeroIsSearch ==
    (reply.op = "hybrid_search" /\ reply.weight = 0) =>
        /\ ~reply.out.raised
        /\ Plain(reply.out.results) = search(query, reply.top_k, EmptyDict)

\* C13: every result of a search call given a non-empty filter map carries
\* the filter's value under every filter key, for VectorDB.search and for
\* RAGRetriever.search with either value of use_hybrid
C13_ResultsMatchFilters ==
    (/\ reply.op \in {"search", "retriever_search"}
     /\ DOMAIN reply.filters # {}
     /\ ~reply.out.raised) =>
        \A i \in 1..Len(reply.out.results) :
            MatchesFilters(reply.out.results[i], reply.filters)

\* the results get_context's search found for the call recorded in reply
Found == retriever_search(query, reply.top_k, EmptyDict, TRUE).results

\* the call of C14: get_context with max_tokens = 0 whose search returned
\* at least one result
ZeroBudgetCall ==
    /\ reply.op = "get_context"
    /\ reply.max_tokens = 0
    /\ ~reply.out.raised
    /\ reply.out.results # Sentinel

\* "Found n relevant chunks. Showing top 0 chunks:" and the blank line
HeaderOnly(n) ==
    <<"Found", SP>> \o NumStr(n) \o
    <<SP, "relevant", SP, "chunks", ".", SP, "Showing", SP, "top", SP, "0", SP,
      "chunks", ":", NL, NL>>

\* C14: get_context(query, max_tokens = 0) whose search returns at least
\* one result returns the header line and no context block
C14_ZeroBudgetHeaderOnly ==
    ZeroBudgetCall => reply.out.results = HeaderOnly(Len(Found))

\* the token counts of the first k results added up
RECURSIVE CumulativeTokens(_, _)
CumulativeTokens(results, k) ==
    IF k = 0 THEN 0
    ELSE CumulativeTokens(results, k - 1) + count_tokens(results[k].text)

\* the largest k such that the first k results have at most max_tokens tokens
FittingPrefix(results, max_tokens) ==
    LET ks == {k \in 0..Len(results) : CumulativeTokens(results, k) <= max_tokens}
    IN  CHOOSE k \in ks : \A j \in ks : j <= k

\* C22: when its search returns results r1..rn (n > 0), get_context returns
\* the header reporting n found and k shown, followed by the blocks of
\* r1..rk in that order and of no other result, k being the largest index
\* at which the token counts of r1..rk add up to at most max_tokens
C22_GreedyPrefixShown ==
    (reply.op = "get_context" /\ ~reply.out.raised /\ Len(Found) > 0) =>
        \E k \in {FittingPrefix(Found, reply.max_tokens)} :
            reply.out.results =
                <<"Found", SP>> \o NumStr(Len(Found)) \o
                <<SP, "relevant", SP, "chunks", ".", SP, "Showing", SP, "top", SP>> \o
                NumStr(k) \o <<SP, "chunks", ":", NL, NL>> \o
                join([i \in 1..k |-> context_part(Found[i])], <<NL, "-", "-", "-", NL>>)

\* two results found under a positive budget: the first does not fit, the
\* second, smaller one would, and no block is shown
C22_Witness ==
    /\ reply.op = "get_context"
    /\ ~reply.out.raised
    /\ Len(Found) = 2
    /\ reply.max_tokens > 0
    /\ count_tokens(Found[1].text) > reply.max_tokens
    /\ count_tokens(Found[2].text) <= reply.max_tokens
    /\ reply.out.results = header(2, 0)

\* the 2 * top_k candidates hybrid_search takes from search
Candidates == search(query, 2 * reply.top_k, EmptyDict)

\* (1 - w) * semantic score + w * keyword score of a result, times
\* 100 * |query words|; w and the semantic score are in tenths
Combined(result, w) ==
    LET query_words == word_set(query)
    IN  (10 - w) * result.score * Cardinality(query_words)
           + w * 10 * Cardinality(query_words \cap word_set(result.text))

\* C24: hybrid_search(query, top_k, w) returns min(top_k, number of
\* candidates) entries, each one of the candidates search(query, 2 * top_k)
\* gives and none taken twice, in the order of non-increasing combined score
\* (1 - w) * semantic score + w * keyword score; no candidate left out has
\* a higher combined score than one returned
C24_HybridTopKByCombinedScore ==
    reply.op = "hybrid_search" =>
        /\ ~reply.out.raised
        /\ Len(reply.out.results) = Min(reply.top_k, Len(Candidates))
        /\ \E pick \in [1..Len(reply.out.results) -> 1..Len(Candidates)] :
              /\ \A i, j \in DOMAIN pick : pick[i] = pick[j] => i = j
              /\ \A i \in DOMAIN pick : Plain(reply.out.results)[i] = Candidates[pick[i]]
              /\ \A i \in DOMAIN pick :
                     reply.out.results[i].combined_score.num
                         = Combined(Candidates[pick[i]], reply.weight)
              /\ \A i \in DOMAIN pick : \A j \in DOMAIN pick :
                     i < j => Combined(Candidates[pick[i]], reply.weight)
                                  >= Combined(Candidates[pick[j]], reply.weight)
              /\ \A c \in 1..Len(Candidates) :
                     (\A i \in DOMAIN pick : pick[i] # c) =>
                         \A i \in DOMAIN pick :
                             Combined(Candidates[c], reply.weight)
                                 <= Combined(Candidates[pick[i]], reply.weight)

\* C26 as stated: hybrid_search divides the keyword score by the number of
\* query words with every occurrence of a repeated word counted
C26_DenominatorCountsRepeats ==
    (reply.op = "hybrid_search" /\ ~reply.out.raised) =>
        \A i \in 1..Len(reply.out.results) :
            reply.out.results[i].combined_score.den = 100 * Len(split(lower(query)))

\* C26 as amended: hybrid_search divides the keyword score by the number of
\* distinct query words, a repeated word counting once, so every result has
\* for the query "a a b" the combined score it has for the query "a b" at
\* the same semantic score
C26_DenominatorCountsDistinctWords ==
    (reply.op = "hybrid_search" /\ ~reply.out.raised) =>
        \A i \in 1..Len(reply.out.results) :
            /\ reply.out.results[i].combined_score.den
                   = 100 * Cardinality(word_set(query))
            /\ query = <<"a", SP, "a", SP, "b">> =>
                   reply.out.results[i].combined_score =
                       combined_score(reply.out.results[i], <<<<"a">>, <<"b">>>>, reply.weight)

\* hybrid_search for the query "a a b" with a positive keyword weight
\* returned a chunk that holds one of the two query words: its keyword
\* score is 1/2
C26_Witness ==
    /\ reply.op = "hybrid_search"
    /\ ~reply.out.raised
    /\ query = <<"a", SP, "a", SP, "b">>
    /\ reply.weight = 3
    /\ \E i \in 1..Len(reply.out.results) :
          /\ reply.out.results[i].combined_score.den = 200
          /\ reply.out.results[i].combined_score.num
                 = 7 * reply.out.results[i].score * 2 + 3 * 10 * 1

\* C29: over a store that is not empty, with the embedder and the store at
\* work, hybrid_search and get_context return for every query, a query
\* without words (empty, whitespace only) included
C29_EveryQueryReturns ==
    (reply.op \in {"hybrid_search", "get_context"} /\ Len(store) > 0) =>
        ~reply.out.raised

\* C15: when its search returns no result, get_context returns the sentinel
\* string and nothing else; and the orchestrator never keeps the sentinel
\* as the context it hands to the content generators
C15_SentinelOnlyAndNeverGrounding ==
    /\ (reply.op \in {"get_context", "prepare_content_source"}
            /\ ~reply.out.raised /\ Len(Found) = 0) =>
           reply.out.results =
               <<"No", SP, "relevant", SP, "information", SP, "found", ".">>
    /\ (reply.op = "prepare_content_source" /\ reply.passed) =>
           reply.out.results # Sentinel

\* the orchestrator received the sentinel from get_context and gave up
C15_Witness ==
    /\ reply.op = "prepare_content_source"
    /\ Len(Found) = 0
    /\ reply.out.results = Sentinel
    /\ ~reply.passed

\* C17: when the embedding model or the vector store fails during search,
\* hybrid_search or get_context, the call raises that error and returns no
\* result list and no context string, having invoked the embedder and the
\* store at most once each
C17_BackendFailureAbortsQuery ==
    reply.op = "query_on_failing_backend" =>
        /\ reply.out.raised
        /\ reply.out.error = IF reply.backend.embed_ok THEN "StoreError"
                             ELSE "EmbeddingError"
        /\ reply.out.results = <<>>
        /\ reply.out.embed_calls <= 1
        /\ reply.out.store_calls <= 1

\* get_context over a non-empty store whose query the store failed to answer
C17_Witness ==
    /\ reply.op = "query_on_failing_backend"
    /\ reply.entry = "get_context"
    /\ Len(store) > 0
    /\ reply.backend.embed_ok
    /\ ~reply.backend.store_ok
    /\ reply.out.raised
    /\ reply.out.store_calls = 1

-----------------------------------------------------------------------------
(* Ingestion: RAGRetriever.ingest_topic, ingest_pdf, batch_ingest_pdfs,
   clear_database and the processed-documents manifest (retriever.py),
   VectorDB.add_documents (vectordb.py) *)

\* os.path.join("documents", filename) of scraper.download_arxiv_pdf
Filepath(d) == <<"documents", "/", d, ".pdf">>

\* os.path.basename(path)
basename(path) ==
    LET slashes == {i \in 1..Len(path) : path[i] = "/"}
    IN  IF slashes = {} THEN path
        ELSE Rest(path, (CHOOSE i \in slashes : \A j \in slashes : j <= i) + 1)

\* s.replace('.pdf', '')
RECURSIVE replace_pdf(_)
replace_pdf(s) ==
    IF Len(s) = 0 THEN <<>>
    ELSE IF s[1] = ".pdf" THEN replace_pdf(Tail(s))
    ELSE <<s[1]>> \o replace_pdf(Tail(s))

\* the item scrape_topic yields for document d (book_metadata); an arXiv
\* item carries the path of its downloaded PDF, the others their text
ItemOf(d) ==
    IF d \in PdfDocs
    THEN [title |-> <<d>>, source |-> <<"arXiv">>, content |-> <<"a", ".">>,
          filepath |-> Filepath(d)]
    ELSE [title |-> <<d>>, source |-> <<"Wikipedia">>, content |-> content[d],
          filepath |-> <<>>]

\* the PDF file a path names
FileOf(path) == CHOOSE d \in PdfDocs : Filepath(d) = path

\* d without the keys ks
Without(d, ks) == [k \in DOMAIN d \ ks |-> d[k]]

\* _is_document_processed(filepath)
is_document_processed(pd, filepath) ==
    IF filepath \in DOMAIN pd
    THEN mtime[FileOf(filepath)] <= pd[filepath].processed_time
    ELSE FALSE

\* '\n\n'.join(page['text'] for page in pdf_data['pages'])
full_text_of(pgs) == join([i \in 1..Len(pgs) |-> pgs[i].text], <<NL, NL>>)

\* s.find(sub): the offset of the first occurrence, -1 when there is none
find(s, sub) ==
    IF IsSubstring(sub, s)
    THEN LET hits == {i \in 1..(Len(s) - Len(sub) + 1) :
                         Slice(s, i, i + Len(sub) - 1) = sub} \cup
                     (IF Len(sub) = 0 THEN {1} ELSE {})
             first == CHOOSE i \in hits : \A j \in hits : i <= j
         IN  CharLen(Slice(s, 1, first - 1))
    ELSE -1

\* lines 183-189: the page whose span holds chunk_start (0: none)
RECURSIVE PageLoop(_, _, _, _)
PageLoop(pgs, n, current_pos, chunk_start) ==
    IF n > Len(pgs) THEN 0
    ELSE IF current_pos <= chunk_start /\ chunk_start < current_pos + CharLen(pgs[n].text)
    THEN pgs[n].page_number
    ELSE PageLoop(pgs, n + 1, current_pos + CharLen(pgs[n].text) + 2, chunk_start)

\* lines 179-189: chunk['page'] is set when a page holds the chunk's text
add_page(chunk, full_text, pgs) ==
    LET page == PageLoop(pgs, 1, 0, find(full_text, chunk.text))
    IN  IF page = 0 THEN chunk ELSE update(chunk, [page |-> page])

\* lines 138-146: doc_metadata of a PDF item
pdf_metadata(item, topic, pgs) ==
    [source |-> item.title, author |-> <<"Unknown">>, topic |-> topic,
     filepath |-> item.filepath, total_pages |-> Len(pgs),
     doc_id |-> replace_pdf(basename(item.filepath)), source_type |-> item.source]

\* f"{source}_{title}"
text_doc_id(item) == item.source \o <<"_">> \o item.title

\* lines 164-172: doc_metadata of a text item
text_metadata(item, topic) ==
    [source |-> item.title, author |-> <<"Unknown">>, topic |-> topic,
     url |-> <<>>, doc_id |-> text_doc_id(item), source_type |-> item.source,
     content_type |-> <<"text">>]

\* lines 195-203: the chunks join the batch, the manifest entry is written
\* in memory, the document is counted
mark_processed(st, item, indexed_chunks, doc_metadata) ==
    LET process_key == IF Len(item.filepath) > 0 THEN item.filepath
                       ELSE doc_metadata.doc_id
    IN  [st EXCEPT
            !.processed_docs =
                update(@, [k \in {process_key} |->
                              [processed_time |-> now, chunks |-> Len(indexed_chunks),
                               title |-> item.title]]),
            !.all_chunks = @ \o indexed_chunks,
            !.books_processed = @ + 1,
            !.docs = @ \cup {doc_metadata.doc_id},
            !.keys = @ \cup {process_key}]

\* a skip that leaves the document out of the count
skip_uncounted(st, doc_id) ==
    [st EXCEPT !.docs = @ \cup {doc_id}]

\* a skipped document is counted as processed (lines 122-124 and 158-160)
skip(st, doc_id) ==
    [st EXCEPT !.books_processed = @ + 1, !.docs = @ \cup {doc_id}]

\* lines 175-193: smart_chunk, the page of each chunk of a PDF (pgs is
\* <<>> for a text item), prepare_chunks_for_indexing
index_document(full_text, pgs, doc_metadata) ==
    The({ prepare_chunks_for_indexing(
              [i \in 1..Len(cs) |->
                  IF Len(pgs) > 0 THEN add_page(cs[i], full_text, pgs) ELSE cs[i]],
              doc_metadata) :
          cs \in {smart_chunk(full_text, doc_metadata)} })

\* lines 114-209: one turn of the loop over the downloaded items
process_item(st, item, topic) ==
    IF Len(item.filepath) > 0
    THEN LET pgs == pages[FileOf(item.filepath)]
             doc_metadata == pdf_metadata(item, topic, pgs)
         IN  IF is_document_processed(st.processed_docs, item.filepath)
             THEN skip(st, doc_metadata.doc_id)
             ELSE IF Len(pgs) = 0 THEN st
             ELSE The({ mark_processed(st, item, indexed_chunks, doc_metadata) :
                        indexed_chunks \in
                            {index_document(full_text_of(pgs), pgs, doc_metadata)} })
    ELSE LET doc_metadata == text_metadata(item, topic)
         IN  IF Len(item.content) = 0 THEN st
             ELSE IF text_doc_id(item) \in DOMAIN st.processed_docs
             THEN skip(st, text_doc_id(item))
             ELSE The({ mark_processed(st, item, indexed_chunks, doc_metadata) :
                        indexed_chunks \in
                            {index_document(item.content, <<>>, doc_metadata)} })

RECURSIVE ItemLoop(_, _, _, _)
ItemLoop(ds, i, st, topic) ==
    IF i > Len(ds) THEN st
    ELSE The({ ItemLoop(ds, i + 1, next, topic) :
               next \in {process_item(st, ItemOf(ds[i]), topic)} })

\* lines 96-209 of ingest_topic: scrape, then process each item; docs is
\* the set of documents the call counted and keys the manifest keys it
\* wrote (history)
process_items(pd, topic) ==
    ItemLoop(downloaded_books[topic], 1,
             [processed_docs |-> pd, all_chunks |-> <<>>, books_processed |-> 0,
              docs |-> {}, keys |-> {}], topic)

\* _add_documents_qdrant: point i of the batch is upserted under id i
add_documents_qdrant(st, cs) ==
    [k \in DOMAIN st \cup 0..(Len(cs) - 1) |->
        IF k \in 0..(Len(cs) - 1)
        THEN [text |-> cs[k + 1].text, metadata |-> Without(cs[k + 1], {"text"})]
        ELSE st[k]]

\* _add_documents_chroma: collection.add under the chunk's id; an id the
\* collection already holds keeps its entry
add_documents_chroma(st, cs) ==
    LET ids == {cs[i].id : i \in 1..Len(cs)}
        at(id) == CHOOSE i \in 1..Len(cs) : cs[i].id = id
    IN  [k \in DOMAIN st \cup ids |->
            IF k \in DOMAIN st THEN st[k]
            ELSE [text |-> cs[at(k)].text,
                  metadata |-> Without(cs[at(k)], {"text", "id"})]]

\* vectordb.add_documents(chunks) when embedding and upload succeed
add_documents(st, cs) ==
    IF Len(cs) = 0 THEN st
    ELSE IF db_type = "qdrant" THEN add_documents_qdrant(st, cs)
    ELSE add_documents_chroma(st, cs)

\* a loader that salvages the entries of a file it cannot parse
load_processed_cache_salvaging == manifest_file.docs

\* _load_processed_cache(): an unreadable file gives an empty manifest
load_processed_cache == IF manifest_file.complete THEN manifest_file.docs ELSE EmptyDict

\* ingest_pdf(pdf_path, metadata) on store st; ok: embedding and upload succeed;
\* adds lists the sizes of the batches add_documents was invoked with (history)
ingest_pdf(st, pdf_path, metadata, ok) ==
    LET pgs == pages[FileOf(pdf_path)]
        doc_metadata == update(metadata,
                               [filepath |-> pdf_path,
                                filename |-> basename(pdf_path),
                                total_pages |-> Len(pgs),
                                doc_id |-> replace_pdf(basename(pdf_path))])
        failed(error, adds) ==
            [store |-> st, adds |-> adds,
             results |-> [chunks_created |-> 0, success |-> FALSE, error |-> error]]
    IN  IF Len(pgs) = 0 THEN failed("ValueError", <<>>)
        ELSE The({ IF Len(indexed_chunks) > 0 /\ ~ok
                   THEN failed("add_documents", <<Len(indexed_chunks)>>)
                   ELSE [store |-> add_documents(st, indexed_chunks),
                         adds |-> <<Len(indexed_chunks)>>,
                         results |-> [chunks_created |-> Len(indexed_chunks),
                                      success |-> TRUE, error |-> "None"]] :
                   indexed_chunks \in
                       {index_document(full_text_of(pgs), <<>>, doc_metadata)} })

\* lines 385-406 of batch_ingest_pdfs: ingest_pdf on one file, then the tally
batch_file(st, file, ok) ==
    The({ IF one.results.success
          THEN [st EXCEPT !.store = one.store,
                          !.results.successful = @ + 1,
                          !.results.total_chunks = @ + one.results.chunks_created,
                          !.docs = @ \cup {<<file>>},
                          !.adds = @ \o one.adds]
          ELSE [st EXCEPT !.results.failed = @ + 1,
                          !.results.errors = Append(@, one.results.error),
                          !.adds = @ \o one.adds] :
          one \in {ingest_pdf(st.store, Filepath(file), EmptyDict, ok)} })

\* line 383: the loop over the files of the directory
RECURSIVE BatchLoop(_, _, _, _)
BatchLoop(files, i, st, oks) ==
    IF i > Len(files) THEN st
    ELSE The({ BatchLoop(files, i + 1, next, oks) :
               next \in {batch_file(st, files[i], oks[files[i]])} })

\* sum(doc['chunks'] for doc in processed_docs.values())
RECURSIVE SumChunks(_, _)
SumChunks(pd, ks) ==
    IF ks = {} THEN 0
    ELSE LET k == CHOOSE x \in ks : TRUE
         IN  pd[k].chunks + SumChunks(pd, ks \ {k})

\* get_statistics() (lines 346-356) of a retriever with manifest pd over
\* store st: total_chunks is summed over the manifest
get_statistics(pd, st) ==
    [collection_info |-> [points_count |-> Cardinality(DOMAIN st)],
     processed_documents |-> Cardinality(DOMAIN pd),
     document_list |-> DOMAIN pd,
     total_chunks |-> SumChunks(pd, DOMAIN pd)]

-----------------------------------------------------------------------------
(* The retriever as a state machine *)

DocTexts == { <<>>, <<SP>>, <<"a", ".", NL, "a", SP, "a", ".">> }
PageLists == { <<>>,
               <<[page_number |-> 1, text |-> <<"a", ".">>]>>,
               <<[page_number |-> 1, text |-> <<"a", ".">>],
                 [page_number |-> 2, text |-> <<"a", SP, "a", ".">>]>> }
\* what the sources yield for each topic
Sources == { [t \in Topics |-> IF t = "ml" THEN <<"t1", "p1">> ELSE <<"p2">>],
             [t \in Topics |-> IF t = "ml" THEN <<"t1">> ELSE <<"p1">>] }
\* the orders os.listdir can give the files of the documents directory
Listings == { <<"p1", "p2">>, <<"p2", "p1">> }

\* a fresh installation: an empty store, no manifest file, the retrievers
\* constructed (RAGRetriever.__init__ loads the manifest, lines 50-52)
Init ==
    /\ IdleChunker
    /\ chunk_size = 3
    /\ overlap = 1
    /\ tokenizer_ok = TRUE
    /\ store = EmptyDict
    /\ sim = EmptyDict
    /\ query = <<>>
    /\ reply = [op |-> "none"]
    /\ db_type \in {"qdrant", "chroma"}
    /\ collection_exists = TRUE
    /\ downloaded_books \in Sources
    /\ content \in [TextDocs -> DocTexts]
    /\ pages \in {pgs \in [PdfDocs -> PageLists] : Len(pgs["p2"]) = 1}
    /\ mtime = [d \in PdfDocs |-> 0]
    /\ now = 1
    /\ manifest_file = File(EmptyDict)
    /\ processed_docs = [r \in Retrievers |-> EmptyDict]
    /\ pc = [r \in Retrievers |-> "idle"]
    /\ pending = [r \in Retrievers |-> NoPending]
    /\ last_call = NoIngest
    /\ prev_call = NoIngest
    /\ added = {}
    /\ reported = 0
    /\ wrote = [r \in Retrievers |-> {}]
    /\ calls = 0

\* the manifest key of an item: its file path, or its doc_id (line 197)
ManifestKey(item) ==
    IF Len(item.filepath) > 0 THEN item.filepath ELSE text_doc_id(item)

\* the unchanged parts of the state in an ingestion step
Frame == UNCHANGED <<chunkerVars, searchVars, envVars>>

\* history: call c completed, right after the call recorded in last_call
Completed(c) ==
    /\ last_call' = c
    /\ prev_call' = last_call
    /\ calls' = calls + 1

\* ingest_topic(topic) as one step (lines 81-231)
IngestTopic(r) ==
    /\ pc[r] = "idle"
    /\ calls < MaxCalls
    /\ \E topic \in Topics, ok \in BOOLEAN :
      \E st \in {process_items(processed_docs[r], topic)} :
        LET n == Len(st.all_chunks)
            results(created, errors) ==
                [books_downloaded |-> Len(downloaded_books[topic]),
                 books_processed |-> st.books_processed,
                 chunks_created |-> created, errors |-> errors]
            record(report) ==
                [op |-> "ingest_topic", r |-> r, topic |-> topic, docs |-> st.docs,
                 report |-> report, store_before |-> store,
                 manifest_before |-> processed_docs[r],
                 handled |-> {ManifestKey(ItemOf(downloaded_books[topic][i])) :
                                 i \in 1..Len(downloaded_books[topic])},
                 indexed |-> st.keys,
                 adds |-> IF n > 0 THEN <<n>> ELSE <<>>]
        IN  /\ n = 0 => ok
            /\ processed_docs' = [processed_docs EXCEPT ![r] = st.processed_docs]
            /\ IF n > 0 /\ ok
               THEN /\ store' = add_documents(store, st.all_chunks)
                    /\ manifest_file' = File(st.processed_docs)
                    /\ added' = added \cup st.keys
                    /\ reported' = reported + n
                    /\ wrote' = [wrote EXCEPT ![r] = @ \cup DOMAIN st.processed_docs]
                    /\ Completed(record(results(n, <<>>)))
               ELSE /\ UNCHANGED <<store, manifest_file, added, reported, wrote>>
                    /\ Completed(record(results(0, IF n > 0 THEN <<"Fatal error">>
                                                   ELSE <<>>)))
            /\ UNCHANGED <<pc, pending>>
            /\ Frame

\* ingest_pdf(pdf_path) (lines 291-344)
IngestPdf(r) ==
    /\ pc[r] = "idle"
    /\ calls < MaxCalls
    /\ \E d \in PdfDocs, ok \in BOOLEAN :
        \E out \in {ingest_pdf(store, Filepath(d), EmptyDict, ok)} :
            /\ (out.results.error # "add_documents") => ok
            /\ store' = out.store
            /\ Completed([op |-> "ingest_pdf", r |-> r, topic |-> "none",
                          docs |-> IF out.results.success THEN {<<d>>} ELSE {},
                          report |-> out.results, store_before |-> store,
                          manifest_before |-> processed_docs[r],
                          handled |-> {Filepath(d)},
                          indexed |-> IF Len(pages[d]) > 0 THEN {Filepath(d)} ELSE {},
                          adds |-> out.adds])
            /\ reported' = reported + out.results.chunks_created
            /\ UNCHANGED <<retrieverVars, added, wrote>>
            /\ Frame

\* batch_ingest_pdfs("documents") (lines 369-410)
BatchIngestPdfs(r) ==
    /\ pc[r] = "idle"
    /\ calls < MaxCalls
    /\ \E files \in Listings, oks \in [PdfDocs -> BOOLEAN] :
        \E out \in {BatchLoop(files, 1,
                       [store |-> store,
                        results |-> [total_files |-> Len(files), successful |-> 0,
                                     failed |-> 0, total_chunks |-> 0, errors |-> <<>>],
                        docs |-> {}, adds |-> <<>>], oks)} :
            /\ store' = out.store
            /\ Completed([op |-> "batch_ingest_pdfs", r |-> r, topic |-> "none",
                          docs |-> out.docs, report |-> out.results,
                          store_before |-> store,
                          manifest_before |-> processed_docs[r],
                          handled |-> {Filepath(files[i]) : i \in 1..Len(files)},
                          indexed |-> {Filepath(files[i]) : i \in
                                          {j \in 1..Len(files) : Len(pages[files[j]]) > 0}},
                          adds |-> out.adds])
            /\ reported' = reported + out.results.total_chunks
            /\ UNCHANGED <<retrieverVars, added, wrote>>
            /\ Frame

\* clear_database() (lines 358-367)
ClearDatabase(r) ==
    /\ pc[r] = "idle"
    /\ calls < MaxCalls
    /\ store # EmptyDict \/ processed_docs[r] # EmptyDict \/ manifest_file # File(EmptyDict)
    /\ store' = EmptyDict
    /\ processed_docs' = [processed_docs EXCEPT ![r] = EmptyDict]
    /\ manifest_file' = File(EmptyDict)
    /\ added' = {}
    /\ reported' = 0
    /\ wrote' = [q \in Retrievers |-> {}]
    /\ Completed([op |-> "clear_database", r |-> r, topic |-> "none", docs |-> {},
                  report |-> "None", store_before |-> store,
                  manifest_before |-> processed_docs[r]])
    /\ UNCHANGED <<pc, pending>>
    /\ Frame

\* the process ends and a new RAGRetriever is constructed: the manifest is
\* loaded from the file (lines 50-52)
Restart(r) ==
    /\ pc[r] = "idle"
    /\ last_call.op \notin {"none", "load"}
    /\ processed_docs' = [processed_docs EXCEPT ![r] = load_processed_cache]
    /\ last_call' = [op |-> "load", r |-> r, partial |-> ~manifest_file.complete]
    /\ prev_call' = NoIngest
    /\ UNCHANGED <<store, manifest_file, pc, pending, added, reported, wrote, calls>>
    /\ Frame

\* processed_docs.json is damaged on disk (a crash while it was written, a
\* bad edit): it still exists, docs is what it held, json.load rejects it
CorruptManifest ==
    /\ calls > 0
    /\ manifest_file.complete
    /\ manifest_file.docs # EmptyDict
    /\ manifest_file' = [complete |-> FALSE, docs |-> manifest_file.docs]
    /\ last_call' = [op |-> "corrupt"]
    /\ prev_call' = NoIngest
    /\ UNCHANGED <<store, processed_docs, pc, pending, added, reported, wrote, calls>>
    /\ Frame

\* a PDF file of the documents directory is rewritten (before the first
\* call this gives no state the initial states do not cover)
TouchPdf ==
    \E d \in PdfDocs :
        /\ now <= MaxTime
        /\ calls > 0
        /\ now' = now + 1
        /\ mtime' = [mtime EXCEPT ![d] = now + 1]
        /\ last_call' = NoIngest
        /\ prev_call' = NoIngest
        /\ UNCHANGED <<chunkerVars, store, searchVars, db_type, collection_exists,
                       downloaded_books, content, pages, retrieverVars, added, reported, wrote, calls>>

\* a source serves a text document with other content
EditText ==
    \E d \in TextDocs, t \in DocTexts :
        /\ now <= MaxTime
        /\ calls > 0
        /\ t # content[d]
        /\ now' = now + 1
        /\ content' = [content EXCEPT ![d] = t]
        /\ last_call' = NoIngest
        /\ prev_call' = NoIngest
        /\ UNCHANGED <<chunkerVars, store, searchVars, db_type, collection_exists,
                       downloaded_books, pages, mtime, retrieverVars, added, reported, wrote, calls>>

Next ==
    \/ IngestTopic(1)
    \/ IngestPdf(1)
    \/ BatchIngestPdfs(1)
    \/ ClearDatabase(1)
    \/ Restart(1)
    \/ TouchPdf
    \/ EditText
    \/ CorruptManifest

Spec == Init /\ [][Next]_vars

-----------------------------------------------------------------------------
(* Two retrievers ingesting at the same time: ingest_topic in the steps
   other processes can interleave with *)

\* lines 96-209: scrape and process the items; without chunks the call returns
TopicScan(r) ==
    /\ pc[r] = "idle"
    /\ pending[r].topic = "none"
    /\ \E topic \in Topics :
        \E st \in {process_items(processed_docs[r], topic)} :
            /\ processed_docs' = [processed_docs EXCEPT ![r] = st.processed_docs]
            /\ pending' = [pending EXCEPT ![r] =
                   [topic |-> topic, all_chunks |-> st.all_chunks,
                    books_processed |-> st.books_processed, docs |-> st.docs,
                    keys |-> st.keys, store_before |-> store,
                    manifest_before |-> processed_docs[r]]]
            /\ pc' = [pc EXCEPT ![r] = IF Len(st.all_chunks) > 0 THEN "add" ELSE "idle"]
            /\ calls' = calls + 1
            /\ UNCHANGED <<store, manifest_file, last_call, prev_call, added, reported, wrote>>
            /\ Frame

\* line 216: vectordb.add_documents(all_chunks); a failure ends the call (line 226)
TopicAdd(r) ==
    \E ok \in BOOLEAN :
        /\ pc[r] = "add"
        /\ IF ok
           THEN /\ store' = add_documents(store, pending[r].all_chunks)
                /\ added' = added \cup pending[r].keys
                /\ reported' = reported + Len(pending[r].all_chunks)
                /\ pc' = [pc EXCEPT ![r] = "save"]
           ELSE /\ pc' = [pc EXCEPT ![r] = "idle"]
                /\ UNCHANGED <<store, added, reported>>
        /\ UNCHANGED <<manifest_file, processed_docs, pending, last_call, prev_call, wrote, calls>>
        /\ Frame

\* line 69: open(processed_cache_file, 'w') truncates the file
SaveOpen(r) ==
    /\ pc[r] = "save"
    /\ manifest_file' = Partial
    /\ pc' = [pc EXCEPT ![r] = "write"]
    /\ UNCHANGED <<store, processed_docs, pending, historyVars>>
    /\ Frame

\* line 70: json.dump(self.processed_docs, f) and the file is closed
SaveWrite(r) ==
    /\ pc[r] = "write"
    /\ manifest_file' = File(processed_docs[r])
    /\ wrote' = [wrote EXCEPT ![r] = @ \cup DOMAIN processed_docs[r]]
    /\ pc' = [pc EXCEPT ![r] = "idle"]
    /\ UNCHANGED <<store, processed_docs, pending, last_call, prev_call, added, reported, calls>>
    /\ Frame

\* the process of retriever r is started again while the other runs: the
\* new RAGRetriever reads the manifest file (lines 56-64)
Load(r) ==
    /\ pc[r] = "idle"
    /\ pending[r].topic # "none"
    /\ last_call.op # "load"
    /\ processed_docs' = [processed_docs EXCEPT ![r] = load_processed_cache]
    /\ last_call' = [op |-> "load", r |-> r, partial |-> ~manifest_file.complete]
    /\ UNCHANGED <<store, manifest_file, pc, pending, prev_call, added, reported, wrote, calls>>
    /\ Frame

NextConcurrent ==
    \E r \in Retrievers :
        \/ TopicScan(r)
        \/ TopicAdd(r)
        \/ SaveOpen(r)
        \/ SaveWrite(r)
        \/ Load(r)

SpecConcurrent == Init /\ [][NextConcurrent]_vars

-----------------------------------------------------------------------------
(* The life of the collection: VectorDB.create_collection, delete_collection,
   add_documents and search, and RAGRetriever.clear_database, on a Qdrant
   store.  The backend refuses to create a collection that exists and to
   write to or search one that does not. *)

\* the chunk lists handed to add_documents
AddBatches ==
    { <<>>,
      <<[text |-> <<"a">>, id |-> <<"c", "_", "0">>]>>,
      <<[text |-> <<"a">>, id |-> <<"c", "_", "0">>],
        [text |-> <<"b">>, id |-> <<"c", "_", "1">>]>> }

InitCollection ==
    /\ IdleChunker
    /\ IdleIngest
    /\ chunk_size = 3
    /\ overlap = 1
    /\ tokenizer_ok = TRUE
    /\ store = EmptyDict
    /\ sim = EmptyDict
    /\ query = <<"a">>
    /\ reply = [op |-> "none"]

\* what the operations on the collection leave alone
CollectionFrame ==
    UNCHANGED <<chunkerVars, query, db_type, downloaded_books, content, pages, mtime,
                now, pc, pending, last_call, prev_call, added, reported, wrote>>

\* the operation recorded in reply is one more call
Operated(op, out) ==
    /\ calls < MaxOps
    /\ calls' = calls + 1
    /\ reply' = [op |-> op, out |-> out]

\* create_collection() (lines 119-147): the client creates the collection,
\* and raises when it already holds one of that name
CreateCollection ==
    /\ IF collection_exists
       THEN /\ Operated("create_collection", Raised("AlreadyExists"))
            /\ UNCHANGED <<collection_exists, store, sim>>
       ELSE /\ Operated("create_collection", Returned(<<>>))
            /\ collection_exists' = TRUE
            /\ store' = EmptyDict
            /\ sim' = EmptyDict
    /\ UNCHANGED <<manifest_file, processed_docs>>
    /\ CollectionFrame

\* delete_collection() (lines 346-352): the collection and its entries are
\* gone; deleting a missing collection raises or does nothing, as the
\* client decides
DeleteCollection ==
    /\ IF collection_exists
       THEN /\ Operated("delete_collection", Returned(<<>>))
            /\ collection_exists' = FALSE
            /\ store' = EmptyDict
            /\ sim' = EmptyDict
       ELSE /\ \E out \in {Raised("CollectionNotFound"), Returned(<<>>)} :
                  Operated("delete_collection", out)
            /\ UNCHANGED <<collection_exists, store, sim>>
    /\ UNCHANGED <<manifest_file, processed_docs>>
    /\ CollectionFrame

\* RAGRetriever.clear_database() (lines 358-367): delete_collection, then
\* create_collection, then the manifest is emptied and saved; a raise of
\* delete_collection ends the call
ClearCollection ==
    /\ \E deleted \in IF collection_exists THEN {TRUE} ELSE BOOLEAN :
        IF deleted
        THEN /\ Operated("clear_database", Returned(<<>>))
             /\ collection_exists' = TRUE
             /\ store' = EmptyDict
             /\ sim' = EmptyDict
             /\ processed_docs' = [processed_docs EXCEPT ![1] = EmptyDict]
             /\ manifest_file' = File(EmptyDict)
        ELSE /\ Operated("clear_database", Raised("CollectionNotFound"))
             /\ UNCHANGED <<collection_exists, store, sim, manifest_file, processed_docs>>
    /\ CollectionFrame

\* add_documents(chunks) (lines 167-187): nothing happens for an empty list;
\* otherwise the chunks are embedded and upserted into the collection
AddDocuments ==
    /\ \E cs \in AddBatches :
        IF Len(cs) > 0 /\ ~collection_exists
        THEN /\ Operated("add_documents", Raised("CollectionNotFound"))
             /\ UNCHANGED <<store, sim>>
        ELSE /\ Operated("add_documents", Returned(<<>>))
             /\ store' = add_documents(store, cs)
             /\ \E s \in [0..(Len(cs) - 1) -> 0..MaxScore] :
                    sim' = [k \in DOMAIN store' |->
                               IF k \in DOMAIN s THEN s[k] ELSE sim[k]]
    /\ UNCHANGED <<collection_exists, manifest_file, processed_docs>>
    /\ CollectionFrame

\* search(query, top_k) (lines 247-258) on the collection
SearchCollection ==
    /\ \E top_k \in TopKs :
        IF collection_exists
        THEN Operated("search", Returned(search(query, top_k, EmptyDict)))
        ELSE Operated("search", Raised("CollectionNotFound"))
    /\ UNCHANGED <<collection_exists, store, sim, manifest_file, processed_docs>>
    /\ CollectionFrame

NextCollection ==
    \/ CreateCollection
    \/ DeleteCollection
    \/ ClearCollection
    \/ AddDocuments
    \/ SearchCollection

SpecCollection == InitCollection /\ [][NextCollection]_vars

\* C19: whatever create_collection, delete_collection, clear_database,
\* add_documents and search calls came before, an add_documents or search
\* call does not fail for a missing collection
C19_CollectionCreatedOnUse ==
    reply.op \in {"add_documents", "search"} =>
        ~(reply.out.raised /\ reply.out.error = "CollectionNotFound")

-----------------------------------------------------------------------------
(* Properties of ingestion (specifications Spec and SpecConcurrent) *)

IngestOps == {"ingest_topic", "ingest_pdf", "batch_ingest_pdfs"}

\* call c reported no error
Succeeded(c) ==
    IF c.op = "ingest_topic" THEN c.report.errors = <<>>
    ELSE IF c.op = "ingest_pdf" THEN c.report.success
    ELSE c.report.failed = 0

\* the last two completed calls are ingestions by the same retriever that
\* reported no error, one right after the other with no document changed
\* in between, and each document of the second was ingested by the first
Reingested ==
    /\ last_call.op \in IngestOps
    /\ prev_call.op \in IngestOps
    /\ last_call.r = prev_call.r
    /\ Succeeded(prev_call)
    /\ Succeeded(last_call)
    /\ last_call.docs # {}
    /\ last_call.docs \subseteq prev_call.docs

\* the entries of store st: under each key the id and the text of the chunk
\* it holds (Qdrant keeps the chunk id in the payload, Chroma as the key)
Held(st) ==
    [k \in DOMAIN st |->
        [id |-> IF db_type = "qdrant" THEN st[k].metadata.id ELSE k,
         text |-> st[k].text]]

\* C6: ingesting the same unmodified documents a second time, through any
\* of ingest_topic, ingest_pdf and batch_ingest_pdfs, leaves the vector
\* store with exactly the entries it had after the first ingestion and
\* every manifest entry with the chunk count it had
C6_ReingestionChangesNothing ==
    Reingested =>
        /\ Held(store) = Held(last_call.store_before)
        /\ \A k \in DOMAIN last_call.manifest_before :
            /\ k \in DOMAIN processed_docs[last_call.r]
            /\ processed_docs[last_call.r][k].chunks = last_call.manifest_before[k].chunks

\* C7: when ingest_topic is called twice in a row on a retriever for the
\* same topic and no document changed in between, the second report counts
\* as many books_processed as the first and creates no chunk
C7_SecondTopicCallSkipsAll ==
    (/\ last_call.op = "ingest_topic"
     /\ prev_call.op = "ingest_topic"
     /\ last_call.topic = prev_call.topic)
        => /\ last_call.report.books_processed = prev_call.report.books_processed
           /\ last_call.report.chunks_created = 0

\* the case of C7 with work to skip: the first call indexed chunks of two
\* documents, one of them a PDF, and the second call counted both
C7_Witness ==
    /\ last_call.op = "ingest_topic"
    /\ prev_call.op = "ingest_topic"
    /\ last_call.topic = prev_call.topic
    /\ prev_call.report.chunks_created > 0
    /\ prev_call.report.books_processed = 2
    /\ last_call.report.books_processed = 2
    /\ last_call.report.chunks_created = 0
    /\ \E d \in PdfDocs : Filepath(d) \in DOMAIN processed_docs[last_call.r]

\* C8: a retriever's manifest marks a document with chunks as processed
\* only after an add_documents call given those chunks succeeded
C8_ManifestEntryOnlyAfterAdd ==
    \A r \in Retrievers :
        pc[r] = "idle" =>
            \A k \in DOMAIN processed_docs[r] :
                processed_docs[r][k].chunks > 0 => k \in added

\* C9: with two retrievers ingesting at the same time, the two never have
\* the manifest file open for writing together, no retriever reads a
\* partially written file, and once both calls returned the file holds
\* every entry either of them saved
C9_ManifestUpdatesAreExclusive ==
    /\ ~(\A r \in Retrievers : pc[r] = "write")
    /\ last_call.op = "load" => ~last_call.partial
    /\ (\A r \in Retrievers : pc[r] = "idle") =>
           \A r \in Retrievers : wrote[r] \subseteq DOMAIN manifest_file.docs

\* C10: when an ingestion call has returned without reporting an error,
\* every manifest entry the call created is in the manifest file
C10_EntriesInFileOnReturn ==
    (last_call.op \in IngestOps /\ Succeeded(last_call)) =>
        \A k \in DOMAIN processed_docs[last_call.r] :
            (\/ k \notin DOMAIN last_call.manifest_before
             \/ last_call.manifest_before[k] # processed_docs[last_call.r][k])
                => /\ k \in DOMAIN manifest_file.docs
                   /\ manifest_file.docs[k] = processed_docs[last_call.r][k]

\* the PDF files call c handled that had a manifest entry when it started
KnownFiles(c) ==
    {k \in c.handled \cap DOMAIN c.manifest_before : \E d \in PdfDocs : Filepath(d) = k}

\* C11: in every ingestion call (ingest_topic, ingest_pdf, batch_ingest_pdfs)
\* a PDF document that has a manifest entry is chunked again exactly when
\* its file's modification time is newer than the entry's processed time,
\* and is skipped otherwise
C11_SkipExactlyWhenNotNewer ==
    last_call.op \in IngestOps =>
        \A k \in KnownFiles(last_call) :
            k \in last_call.indexed <=>
                mtime[FileOf(k)] > last_call.manifest_before[k].processed_time

\* C12: an ingestion call's add_documents leaves every entry an earlier
\* add_documents call stored in place with its text and metadata: no entry
\* is overwritten by a chunk of different content or removed
C12_AddNeverOverwrites ==
    last_call.op \in IngestOps =>
        \A k \in DOMAIN last_call.store_before :
            /\ k \in DOMAIN store
            /\ store[k] = last_call.store_before[k]

\* the positions in the batch of ingest_topic call c of the documents whose
\* processing failed: a text item without content (line 150), a PDF from
\* which no text was extracted (line 130)
FailedItems(c) ==
    {i \in 1..Len(downloaded_books[c.topic]) :
        LET item == ItemOf(downloaded_books[c.topic][i])
        IN  IF Len(item.filepath) > 0
            THEN Len(pages[FileOf(item.filepath)]) = 0
            ELSE Len(item.content) = 0}

\* the doc_id ingest_topic gives an item (lines 144 and 155)
DocIdOf(item) ==
    IF Len(item.filepath) > 0 THEN replace_pdf(basename(item.filepath))
    ELSE text_doc_id(item)

\* the per-document entries of an error list
ItemErrors(errors) == {i \in 1..Len(errors) : errors[i] # "Fatal error"}

\* C16: an ingest_topic call records every document whose processing failed
\* in the report's error list and still processes every other document of
\* the batch, those after the failed one included
C16_ItemFailureRecordedOthersProcessed ==
    last_call.op = "ingest_topic" =>
        /\ Cardinality(ItemErrors(last_call.report.errors))
               >= Cardinality(FailedItems(last_call))
        /\ \A j \in 1..Len(downloaded_books[last_call.topic]) \ FailedItems(last_call) :
               DocIdOf(ItemOf(downloaded_books[last_call.topic][j])) \in last_call.docs

\* C18: loading a manifest file that exists but cannot be parsed gives an
\* empty manifest without raising, and the next ingest_topic call chunks
\* every document of its batch that has text again
C18_CorruptManifestLoadsEmpty ==
    /\ (last_call.op = "load" /\ last_call.partial) =>
           processed_docs[last_call.r] = EmptyDict
    /\ (last_call.op = "ingest_topic" /\ prev_call.op = "load" /\ prev_call.partial) =>
           /\ last_call.manifest_before = EmptyDict
           /\ \A i \in 1..Len(downloaded_books[last_call.topic]) \ FailedItems(last_call) :
                  ManifestKey(ItemOf(downloaded_books[last_call.topic][i]))
                      \in last_call.indexed

\* a document ingested and recorded before the manifest file was damaged is
\* chunked again by the first ingest_topic after the reload
C18_Witness ==
    /\ last_call.op = "ingest_topic"
    /\ prev_call.op = "load"
    /\ prev_call.partial
    /\ \E k \in last_call.indexed, j \in DOMAIN last_call.store_before :
           last_call.store_before[j].metadata.doc_id = replace_pdf(basename(k))
    /\ last_call.report.chunks_created > 0

\* C23: an ingest_topic or batch_ingest_pdfs call invokes add_documents at
\* most once, however many documents it chunked
C23_OneAddPerCall ==
    last_call.op \in {"ingest_topic", "batch_ingest_pdfs"} =>
        Len(last_call.adds) <= 1

\* C30: as long as clear_database is not called, get_statistics().total_chunks
\* of the retriever is at least the number of chunks its ingestion calls
\* (ingest_topic, ingest_pdf, batch_ingest_pdfs) reported as created; it
\* is above 0 after a batch_ingest_pdfs call that reported a successful
\* file with chunks
C30_TotalChunksCoversReported ==
    last_call.op \in IngestOps =>
        \E stats \in {get_statistics(processed_docs[last_call.r], store)} :
            /\ stats.total_chunks >= reported
            /\ (/\ last_call.op = "batch_ingest_pdfs"
                /\ last_call.report.successful >= 1
                /\ last_call.report.total_chunks > 0) => stats.total_chunks > 0

=============================================================================
